---- MODULE Spec2Model ----
(***************************************************************************)
(* Moderation event dispatcher of dino (dino/endpoint/queue.py): the       *)
(* QueueHandler of every node of a cluster, the internal bus the nodes     *)
(* share, the broadcast transport of each node and the persistence store.  *)
(*                                                                         *)
(* One victim user (U2, sid s2) is followed.  Every run of                 *)
(* handle_server_activity is one atomic step of the node that runs it      *)
(* (the dispatcher is single threaded per node); the port calls the run    *)
(* makes are recorded, in call order, in last[n].fx.                       *)
(***************************************************************************)
EXTENDS Integers, Sequences, FiniteSets, TLC

Nodes == {"A", "B"}

\* Python's None
NoVal == "None"

\* the default namespace of the broadcast transport
WS == "/ws"

Victim == "U2"

Sid == "s2"

\* the rooms of channel C1, in the order the persistence store lists them
RoomSeq == <<"R1", "R2">>

RoomSet == {RoomSeq[i] : i \in 1..Len(RoomSeq)}

\* the victim's messages, in storage order, and the room of each
MsgSeq == <<"m1", "m2", "m3">>

MsgSet == {MsgSeq[i] : i \in 1..Len(MsgSeq)}

MsgRoom == [m \in MsgSet |-> IF m = "m3" THEN "R2" ELSE "R1"]

\* The envelopes that can arrive, by activity.id; object.id is the victim and
\* actor.id is the variable `actor`.
Catalog ==
    << [verb |-> "ban",     objectType |-> "room",    target |-> "R1",  url |-> NoVal],
       [verb |-> "ban",     objectType |-> "channel", target |-> "C1",  url |-> NoVal],
       [verb |-> "ban",     objectType |-> NoVal,     target |-> NoVal, url |-> WS],
       [verb |-> "ban",     objectType |-> NoVal,     target |-> "R1",  url |-> NoVal],
       [verb |-> "kick",    objectType |-> "room",    target |-> "R1",  url |-> WS],
       [verb |-> "kick",    objectType |-> "room",    target |-> "R1",  url |-> NoVal],
       [verb |-> "remove",  objectType |-> "room",    target |-> "R1",  url |-> WS],
       [verb |-> "message", objectType |-> "room",    target |-> "R1",  url |-> NoVal] >>

NamedIds == 1..Len(Catalog)

\* bounds of the model
MaxArrivals == 3

MaxInbox == 2

MaxFill == 203

MaxRedeliveries == 1

MaxRepeat == 101

\* queue.py:123 and queue.py:130, the cap of both dedup windows
WindowCap == 100

\* the keys of environ.env.session the validator reads or writes: the token
\* (SessionKeys.token), the user name and one more attribute
SessionKeys == {"token", "user_name", "gender"}

VARIABLES
    cluster,        \* the nodes that run a dispatcher on the internal bus
    nodeType,       \* env.node of each node: "app" (websocket) or "rest"
    actor,          \* activity.actor.id of the envelopes: "0" is the admin
    knownUsers,     \* the user ids utils.get_user_name_for knows
    live,           \* the named envelopes that arrive in this run
    budget,         \* arrivals of named envelopes still to come
    fill,           \* fresh-id envelopes delivered so far
    inboxCap,       \* arrivals wait while a queue holds this many envelopes
    sio,            \* socketio.server.manager.rooms["/ws"] of each node,
                    \* as the set of room keys that hold the victim's sid
    dbRooms,        \* env.db.rooms_for_user(victim)
    bans,           \* the bans of the victim in env.db: <<scope, scope_id>>
    online,         \* the victim's cluster-global online flag
    undeleted,      \* the victim's undeleted messages in env.storage
    inbox,          \* the queue of each node on the internal bus
    recently_delegated_events,
    recently_delegated_events_set,
    recently_handled_events,
    recently_handled_events_set,
    last,           \* the last run of handle_server_activity on each node
    calls,          \* per node and named id: runs past the dedup, ban
                    \* persistence calls, republishes
    fault,          \* the port call that raises when it is next made, and
                    \* the exception it raises
    session,        \* environ.env.session of the client the validator serves
    reply,          \* the last call of a RequestValidator handler: the
                    \* activity, the answers of the ports, the session
                    \* before the call and the triple returned
    stored_acls,    \* the ACLs stored for room R1: <<attribute, expression>>
    acl             \* the ACL expression being validated or evaluated: its
                    \* tokens, the session, and the outcome

vars ==
    << cluster, nodeType, actor, knownUsers, live, budget, fill, inboxCap, sio, dbRooms,
       bans, online, undeleted, inbox, recently_delegated_events,
       recently_delegated_events_set, recently_handled_events,
       recently_handled_events_set, last, calls, fault, session, reply,
       stored_acls, acl >>

\* the state of the dispatcher and of the cluster
queue_vars ==
    << cluster, nodeType, actor, knownUsers, live, budget, fill, inboxCap, sio, dbRooms,
       bans, online, undeleted, inbox, recently_delegated_events,
       recently_delegated_events_set, recently_handled_events,
       recently_handled_events_set, last, calls, fault >>

\* fresh ids alternate between a ban of the victim in room R2 and a message
EnvOf(id) ==
    LET shape == IF id \in NamedIds THEN Catalog[id]
                 ELSE IF id % 2 = 0
                      THEN [verb |-> "ban", objectType |-> "room",
                            target |-> "R2", url |-> NoVal]
                      ELSE [verb |-> "message", objectType |-> "room",
                            target |-> "R2", url |-> NoVal]
    IN  [id |-> id, verb |-> shape.verb, actor |-> actor,
         objectType |-> shape.objectType, target |-> shape.target,
         url |-> shape.url]

----------------------------------------------------------------------------
\* Ports.  A run threads a record st: the calls made so far (fx), the node's
\* transport rooms, the persistence state, the dedup windows of the node, the
\* number of copies it put on the internal bus (out) with the node's dedup
\* sets at each of these publishes (sent), the exception that is propagating
\* (exc, NoVal when none) and the call that raised (failed).

\* the exceptions a port call can raise: a KeyError, or any other Exception
KeyErrors == {"KeyError"}

AnyException == {"KeyError", "Error"}

NoFault == [op |-> NoVal, at |-> NoVal, kind |-> NoVal]

Raised(st) == st.exc # NoVal

\* the call op(a, b) is the one that raises
Fails(op, a, b) ==
    fault.op = op /\ fault.at \in {a, b}

\* a port call: skipped while an exception propagates, raises when it is the
\* failing call (once), and is recorded otherwise
Eff(st, op, a, b) ==
    IF Raised(st) THEN st
    ELSE IF st.failed = <<>> /\ Fails(op, a, b)
    THEN [st EXCEPT !.exc = fault.kind, !.failed = <<op, a, b>>]
    ELSE [st EXCEPT !.fx = Append(@, <<op, a, b>>)]

\* except <kinds>: the handler logs the exception and goes on
Catch(st, kinds) ==
    IF st.exc \in kinds THEN [st EXCEPT !.exc = NoVal] ELSE st

out_of_scope_emit(st, event, namespace, room) ==
    Eff(st, event, namespace, room)

publish_external(st, kind) ==
    Eff(st, "publish_external", kind, "-")

\* environ.env.publish(data): the envelope goes on the internal bus; sent
\* keeps the two dedup sets of the node as they are at that moment
publish(st) ==
    LET s1 == Eff(st, "publish", "-", "-")
    IN  IF Raised(s1) THEN s1
        ELSE [s1 EXCEPT !.out = @ + 1,
                        !.sent = Append(@, [handled |-> st.hs,
                                            delegated |-> st.ds])]

\* utils.get_sid_for_user_id(victim): the sid of the victim's connection
get_sid_for_user_id ==
    IF \E n \in Nodes : Sid \in sio[n] THEN Sid ELSE NoVal

\* the session store has lost the victim's sid: the transport of the node
\* still holds the connection (user_is_on_this_node, line 48, found the
\* sid) but a later lookup of the run finds no sid
SidLost == [op |-> "utils.get_sid_for_user_id", at |-> Victim, kind |-> NoVal]

\* utils.get_sid_for_user_id(banned_id) as handle_ban is answered (line 380)
get_sid_for_banned_id ==
    IF fault = SidLost THEN NoVal ELSE get_sid_for_user_id

\* socketio.server.manager.rooms[namespace] exists on node n
HasNamespace(n, namespace) ==
    nodeType[n] = "app" /\ namespace = WS

----------------------------------------------------------------------------
\* QueueHandler

user_is_on_this_node(n, e) ==
    IF nodeType[n] # "app" THEN FALSE
    ELSE LET room_id == e.target
             namespace == IF e.url = NoVal THEN WS ELSE e.url
             user_sid == get_sid_for_user_id
         IN  IF ~HasNamespace(n, namespace) THEN FALSE
             ELSE IF room_id = NoVal THEN user_sid \in sio[n]
             ELSE user_sid = Sid /\ room_id \in sio[n]

get_ban_target_type(e) ==
    IF e.objectType \in {"room", "channel"} THEN e.objectType ELSE "global"

send_ban_event_to_external_queue(st, e) ==
    publish_external(st, "ban")

send_kick_event_to_external_queue(st, e) ==
    publish_external(st, "kick")

\* env.db.ban_user_global / ban_user_channel / ban_user_room
ban_user(st, target_type, target_id) ==
    LET op == CASE target_type = "global" -> "db.ban_user_global"
                [] target_type = "channel" -> "db.ban_user_channel"
                [] OTHER -> "db.ban_user_room"
        s1 == Eff(st, op, target_id, "-")
    IN  IF Raised(s1) THEN s1
        ELSE [s1 EXCEPT !.bans = @ \cup {<<target_type, target_id>>},
                        !.persisted = @ + 1]

\* a faulty variant (C6): the channel branch is missing, a channel ban is persisted
\* as a room ban
create_ban_without_channel_branch(st, e) ==
    LET target_type == get_ban_target_type(e)
        target_id == IF target_type = "global" THEN "" ELSE e.target
        s1 == send_ban_event_to_external_queue(st, e)
    IN  ban_user(s1, IF target_type = "global" THEN "global" ELSE "room",
                 target_id)

\* the try block of lines 98-115 is left by a KeyError only
create_ban_even_if_not_on_this_node(st, e) ==
    IF Raised(st) THEN st
    ELSE LET target_type == get_ban_target_type(e)
             target_id == IF target_type = "global" THEN "" ELSE e.target
             s1 == send_ban_event_to_external_queue(st, e)
         IN  Catch(ban_user(s1, target_type, target_id), KeyErrors)

\* a faulty variant (C1): the oldest id leaves the set but stays in the queue
update_recently_delegated_events_keeps_oldest(st, activity_id) ==
    LET q == Append(st.dq, activity_id)
        s == st.ds \cup {activity_id}
    IN  IF Len(q) > WindowCap
        THEN [st EXCEPT !.dq = q, !.ds = s \ {Head(q)}]
        ELSE [st EXCEPT !.dq = q, !.ds = s]

\* a faulty variant (C36): the oldest id leaves the queue but stays in the set
update_recently_delegated_events_keeps_set(st, activity_id) ==
    LET q == Append(st.dq, activity_id)
        s == st.ds \cup {activity_id}
    IN  IF Len(q) > WindowCap
        THEN [st EXCEPT !.dq = Tail(q), !.ds = s]
        ELSE [st EXCEPT !.dq = q, !.ds = s]

update_recently_delegated_events(st, activity_id) ==
    LET q == Append(st.dq, activity_id)
        s == st.ds \cup {activity_id}
    IN  IF Len(q) > WindowCap
        THEN [st EXCEPT !.dq = Tail(q), !.ds = s \ {Head(q)}]
        ELSE [st EXCEPT !.dq = q, !.ds = s]

\* a faulty variant (C34): a full window evicts its second oldest id
update_recently_handled_events_evicts_second(st, activity_id) ==
    LET q == Append(st.hq, activity_id)
        s == st.hs \cup {activity_id}
    IN  IF Len(q) > WindowCap
        THEN [st EXCEPT !.hq = <<Head(q)>> \o Tail(Tail(q)), !.hs = s \ {q[2]}]
        ELSE [st EXCEPT !.hq = q, !.hs = s]

update_recently_handled_events(st, activity_id) ==
    LET q == Append(st.hq, activity_id)
        s == st.hs \cup {activity_id}
    IN  IF Len(q) > WindowCap
        THEN [st EXCEPT !.hq = Tail(q), !.hs = s \ {Head(q)}]
        ELSE [st EXCEPT !.hq = q, !.hs = s]

get_undeleted_message_ids_for_user_and_room(st, room_id) ==
    SelectSeq(MsgSeq, LAMBDA m : m \in st.undeleted /\ MsgRoom[m] = room_id)

\* env.storage.delete_message(message_id), inside its own try block
delete_message(st, message_id) ==
    LET s1 == Eff(st, "storage.delete_message", message_id, "-")
    IN  IF Raised(s1) THEN Catch(s1, AnyException)
        ELSE [s1 EXCEPT !.undeleted = @ \ {message_id}]

RECURSIVE try_to_delete_messages(_, _)
try_to_delete_messages(st, messages) ==
    IF messages = <<>> THEN st
    ELSE try_to_delete_messages(delete_message(st, Head(messages)),
                                Tail(messages))

delete_messages(st, messages) ==
    IF Len(messages) = 0 THEN st ELSE try_to_delete_messages(st, messages)

delete_for_user_in_room(st, room_id) ==
    IF Raised(st) THEN st
    ELSE delete_messages(st,
             get_undeleted_message_ids_for_user_and_room(st, room_id))

\* a faulty variant (C9): the user leaves the transport room only
leave_room_of_transport_only(st, room_id) ==
    [Eff(st, "socketio.leave_room", WS, room_id) EXCEPT !.sioN = @ \ {room_id}]

\* socketio.server.leave_room(user_sid, room_id, '/ws'), then
\* env.db.leave_room(user_id, room_id), each inside its own try block
leave_room(st, room_id) ==
    IF Raised(st) THEN st
    ELSE LET s1 == Eff(st, "socketio.leave_room", WS, room_id)
             s2 == IF Raised(s1) THEN Catch(s1, AnyException)
                   ELSE [s1 EXCEPT !.sioN = @ \ {room_id}]
             s3 == Eff(s2, "db.leave_room", room_id, "-")
         IN  IF Raised(s3) THEN Catch(s3, AnyException)
             ELSE [s3 EXCEPT !.dbRooms = @ \ {room_id}]

\* a faulty variant (C32): the user is made to leave the room whether or not
\* its sid is in the room on this node
kick_always_leaves(st, n, e, room_id, user_sid, namespace) ==
    IF Raised(st) THEN st
    ELSE IF ~HasNamespace(n, namespace) THEN st
    ELSE LET s1 == out_of_scope_emit(st, "gn_user_kicked", namespace, room_id)
             s2 == send_kick_event_to_external_queue(s1, e)
         IN  delete_for_user_in_room(leave_room(s2, room_id), room_id)

\* room_id is never None here: every caller passes a room of the envelope,
\* of the channel or of rooms_for_user
kick(st, n, e, room_id, user_sid, namespace) ==
    IF Raised(st) THEN st
    ELSE IF ~HasNamespace(n, namespace) THEN st
    ELSE LET in_room == user_sid = Sid /\ room_id \in st.sioN
             s1 == out_of_scope_emit(st, "gn_user_kicked", namespace, room_id)
             s2 == send_kick_event_to_external_queue(s1, e)
             s3 == IF in_room THEN leave_room(s2, room_id) ELSE s2
         IN  delete_for_user_in_room(s3, room_id)

\* a faulty variant (C10): the room is told but the user is not kicked
ban_room_without_kick(st, n, e, room_id, user_sid, namespace) ==
    LET s1 == out_of_scope_emit(st, "gn_user_banned", namespace, room_id)
        s2 == IF e.actor # "0"
              THEN out_of_scope_emit(s1, "gn_user_banned", namespace, e.actor)
              ELSE s1
    IN  delete_for_user_in_room(s2, room_id)

\* the two broadcasts are outside the try block; an exception of kick is
\* logged and ban_room returns
ban_room(st, n, e, room_id, user_sid, namespace) ==
    LET s1 == out_of_scope_emit(st, "gn_user_banned", namespace, room_id)
        s2 == IF e.actor # "0"
              THEN out_of_scope_emit(s1, "gn_user_banned", namespace, e.actor)
              ELSE s1
        s3 == kick(s2, n, e, room_id, user_sid, namespace)
    IN  IF Raised(s2) THEN s2
        ELSE IF Raised(s3) THEN Catch(s3, AnyException)
        ELSE delete_for_user_in_room(s3, room_id)

\* the loop of ban_channel and ban_globally; an exception ends it
RECURSIVE ban_each_room(_, _, _, _, _, _)
ban_each_room(st, n, e, rooms, user_sid, namespace) ==
    IF rooms = <<>> \/ Raised(st) THEN st
    ELSE LET s1 == out_of_scope_emit(st, "gn_user_banned", namespace, Head(rooms))
             s2 == kick(s1, n, e, Head(rooms), user_sid, namespace)
         IN  ban_each_room(s2, n, e, Tail(rooms), user_sid, namespace)

RECURSIVE delete_each_room(_, _)
delete_each_room(st, rooms) ==
    IF rooms = <<>> THEN st
    ELSE delete_each_room(delete_for_user_in_room(st, Head(rooms)), Tail(rooms))

\* an exception of the loop is logged and ban_channel returns
ban_channel(st, n, e, rooms_in_channel, user_sid, namespace) ==
    LET s1 == IF e.actor # "0"
              THEN out_of_scope_emit(st, "gn_user_banned", namespace, e.actor)
              ELSE st
        s2 == ban_each_room(s1, n, e, rooms_in_channel, user_sid, namespace)
    IN  IF Raised(s2) THEN Catch(s2, AnyException)
        ELSE delete_each_room(s2, rooms_in_channel)

ban_globally(st, n, e, rooms, user_sid, namespace) ==
    Catch(ban_each_room(st, n, e, rooms, user_sid, namespace), AnyException)

\* env.db.rooms_for_user(victim), as the persistence store lists it
rooms_for_user(st) ==
    SelectSeq(RoomSeq, LAMBDA r : r \in st.dbRooms)

\* env.db.rooms_for_channel(channel_id)
rooms_for_channel(channel_id) ==
    IF channel_id = "C1" THEN RoomSeq ELSE <<>>

\* env.db.set_user_offline(victim)
set_user_offline(st) ==
    LET s1 == Eff(st, "db.set_user_offline", "-", "-")
    IN  IF Raised(s1) THEN s1 ELSE [s1 EXCEPT !.online = FALSE]

\* a faulty variant (C40): a banner without a user name is no reason to stop
handle_ban_of_any_banner(st, n, e) ==
    LET banned_sid == get_sid_for_banned_id
        namespace == IF e.url = NoVal THEN WS ELSE e.url
        target_type == e.objectType
        target_id == IF target_type \in {"room", "channel"} THEN e.target ELSE ""
    IN  IF banned_sid \in {NoVal, ""} THEN st
        ELSE
        LET s1 == IF target_id \in {NoVal, ""}
                  THEN LET g1 == ban_globally(st, n, e, rooms_for_user(st),
                                              banned_sid, namespace)
                           g2 == set_user_offline(g1)
                       IN  publish_external(g2, "disconnect")
                  ELSE IF target_type = "channel"
                  THEN ban_channel(st, n, e, rooms_for_channel(target_id),
                                   banned_sid, namespace)
                  ELSE ban_room(st, n, e, target_id, banned_sid, namespace)
        IN  Catch(out_of_scope_emit(s1, "gn_banned", namespace,
                                    get_sid_for_user_id),
                  KeyErrors)

\* the banned user is connected when handle_ban runs, so its name is known;
\* a banner other than '0' may be unknown (NoSuchUserException, line 373).
\* The try block of lines 405-423 is left by a KeyError only.
handle_ban(st, n, e) ==
    IF e.actor # "0" /\ e.actor \notin knownUsers THEN st
    ELSE
    LET banned_sid == get_sid_for_banned_id
        namespace == IF e.url = NoVal THEN WS ELSE e.url
        target_type == e.objectType
        target_id == IF target_type \in {"room", "channel"} THEN e.target ELSE ""
    IN  IF banned_sid \in {NoVal, ""} THEN st
        ELSE
        LET s1 == IF target_id \in {NoVal, ""}
                  THEN LET g1 == ban_globally(st, n, e, rooms_for_user(st),
                                              banned_sid, namespace)
                           g2 == set_user_offline(g1)
                       IN  publish_external(g2, "disconnect")
                  ELSE IF target_type = "channel"
                  THEN ban_channel(st, n, e, rooms_for_channel(target_id),
                                   banned_sid, namespace)
                  ELSE ban_room(st, n, e, target_id, banned_sid, namespace)
        IN  Catch(out_of_scope_emit(s1, "gn_banned", namespace,
                                    get_sid_for_user_id),
                  KeyErrors)

RECURSIVE kick_each_room(_, _, _, _, _, _)
kick_each_room(st, n, e, rooms, user_sid, namespace) ==
    IF rooms = <<>> THEN st
    ELSE kick_each_room(kick(st, n, e, Head(rooms), user_sid, namespace),
                        n, e, Tail(rooms), user_sid, namespace)

\* the try block of lines 355-362 is left by a KeyError only
handle_kick(st, n, e) ==
    IF e.actor # "0" /\ e.actor \notin knownUsers THEN st
    ELSE
    LET kicked_sid == get_sid_for_user_id
        room_id == e.target
        namespace == e.url
    IN  IF kicked_sid \in {NoVal, ""} THEN st
        ELSE IF room_id \in {NoVal, ""}
        THEN Catch(kick_each_room(st, n, e, rooms_for_user(st), kicked_sid,
                                  namespace),
                   KeyErrors)
        ELSE Catch(kick(st, n, e, room_id, kicked_sid, namespace), KeyErrors)

handle_remove(st, e) ==
    out_of_scope_emit(st, "gn_room_removed", e.url, "-")

\* a faulty variant (C4): the ban is persisted only on the node the user is on
handle_local_node_events_persists_on_node_only(st, n, e) ==
    IF e.verb = "ban"
    THEN IF ~user_is_on_this_node(n, e)
         THEN publish(update_recently_delegated_events(st, e.id))
         ELSE handle_ban(create_ban_even_if_not_on_this_node(st, e), n, e)
    ELSE IF e.verb = "kick" THEN handle_kick(st, n, e)
    ELSE IF e.verb = "remove" THEN handle_remove(st, e)
    ELSE st

\* a faulty variant (C7): the ban is persisted after handle_ban has run
handle_local_node_events_persists_last(st, n, e) ==
    IF e.verb = "ban"
    THEN LET user_is_on_node == user_is_on_this_node(n, e)
             s1 == IF ~user_is_on_node
                   THEN publish(update_recently_delegated_events(st, e.id))
                   ELSE handle_ban(st, n, e)
         IN  create_ban_even_if_not_on_this_node(s1, e)
    ELSE IF e.verb = "kick" THEN handle_kick(st, n, e)
    ELSE IF e.verb = "remove" THEN handle_remove(st, e)
    ELSE st

\* a faulty variant (C35): handle_ban is run on the delegating node as well
handle_local_node_events_bans_on_every_node(st, n, e) ==
    IF e.verb = "ban"
    THEN LET s1 == IF ~user_is_on_this_node(n, e)
                   THEN publish(update_recently_delegated_events(st, e.id))
                   ELSE st
             s2 == create_ban_even_if_not_on_this_node(s1, e)
         IN  IF Raised(s2) THEN s2
             ELSE Catch(handle_ban(s2, n, e), AnyException)
    ELSE IF e.verb = "kick" THEN Catch(handle_kick(st, n, e), AnyException)
    ELSE IF e.verb = "remove" THEN Catch(handle_remove(st, e), AnyException)
    ELSE st

\* a faulty variant (C39): the envelope is republished before its id is put
\* in recently_delegated
handle_local_node_events_publishes_first(st, n, e) ==
    IF e.verb = "ban"
    THEN LET user_is_on_node == user_is_on_this_node(n, e)
             s1 == IF ~user_is_on_node
                   THEN update_recently_delegated_events(publish(st), e.id)
                   ELSE st
             s2 == create_ban_even_if_not_on_this_node(s1, e)
         IN  IF ~user_is_on_node \/ Raised(s2) THEN s2
             ELSE Catch(handle_ban(s2, n, e), AnyException)
    ELSE IF e.verb = "kick" THEN Catch(handle_kick(st, n, e), AnyException)
    ELSE IF e.verb = "remove" THEN Catch(handle_remove(st, e), AnyException)
    ELSE st

\* the republish (line 144) and create_ban_even_if_not_on_this_node (line
\* 147) are outside every try block of this method
handle_local_node_events(st, n, e) ==
    IF e.verb = "ban"
    THEN LET user_is_on_node == user_is_on_this_node(n, e)
             s1 == IF ~user_is_on_node
                   THEN publish(update_recently_delegated_events(st, e.id))
                   ELSE st
             s2 == create_ban_even_if_not_on_this_node(s1, e)
         IN  IF ~user_is_on_node \/ Raised(s2) THEN s2
             ELSE Catch(handle_ban(s2, n, e), AnyException)
    ELSE IF e.verb = "kick" THEN Catch(handle_kick(st, n, e), AnyException)
    ELSE IF e.verb = "remove" THEN Catch(handle_remove(st, e), AnyException)
    ELSE st

\* a faulty variant (C2): recently_handled is filled but never consulted
handle_server_activity_ignores_handled(st, n, e) ==
    IF e.id \in st.ds THEN st
    ELSE LET s1 == [update_recently_handled_events(st, e.id) EXCEPT !.ran = TRUE]
         IN  IF e.verb \in {"ban", "kick", "remove"}
             THEN handle_local_node_events(s1, n, e)
             ELSE publish_external(s1, "activity")

\* a faulty variant (C3): recently_delegated is filled but never consulted
handle_server_activity_ignores_delegated(st, n, e) ==
    IF e.id \in st.hs THEN st
    ELSE LET s1 == [update_recently_handled_events(st, e.id) EXCEPT !.ran = TRUE]
         IN  IF e.verb \in {"ban", "kick", "remove"}
             THEN handle_local_node_events(s1, n, e)
             ELSE publish_external(s1, "activity")

\* _handle_server_activity
\* a faulty variant (C27): an envelope that is no ban, kick or remove is put
\* on the internal bus as well
handle_server_activity_body_republishes(st, n, e) ==
    IF e.id \in st.ds THEN st
    ELSE IF e.id \in st.hs THEN st
    ELSE LET s1 == [update_recently_handled_events(st, e.id) EXCEPT !.ran = TRUE]
         IN  IF e.verb \in {"ban", "kick", "remove"}
             THEN handle_local_node_events(s1, n, e)
             ELSE publish(publish_external(s1, "activity"))

\* a faulty variant (C38): the two windows are filled but never consulted
handle_server_activity_body_without_dedup(st, n, e) ==
    LET s1 == [update_recently_handled_events(st, e.id) EXCEPT !.ran = TRUE]
    IN  IF e.verb \in {"ban", "kick", "remove"}
        THEN handle_local_node_events(s1, n, e)
        ELSE publish_external(s1, "activity")

handle_server_activity_body(st, n, e) ==
    IF e.id \in st.ds THEN st
    ELSE IF e.id \in st.hs THEN st
    ELSE LET s1 == [update_recently_handled_events(st, e.id) EXCEPT !.ran = TRUE]
         IN  IF e.verb \in {"ban", "kick", "remove"}
             THEN handle_local_node_events(s1, n, e)
             ELSE publish_external(s1, "activity")

\* a faulty variant (C13): the exception of the handling is not caught
handle_server_activity_propagates(st, n, e) ==
    handle_server_activity_body(st, n, e)

handle_server_activity(st, n, e) ==
    Catch(handle_server_activity_body(st, n, e), AnyException)

----------------------------------------------------------------------------
\* RequestValidator (dino/validation/request_validator.py).  A handler gets
\* the activity a, the answers env of the ports it asks, and the session; it
\* returns its triple and the session it leaves.

\* `x is None or x == ''`
Blank(x) == x \in {NoVal, ""}

\* `x is None or x.strip() == ''`
BlankStripped(x) == x \in {NoVal, "", " "}

\* a faulty variant (C17): success carries the code 200 and the reason 'ok'
True_200_ok(sess) ==
    [ok |-> TRUE, code |-> <<200>>, reason |-> "ok", session |-> sess]

\* an int of Python is <<i>> and None, where an int is expected, is <<>>
True_None_None(sess) ==
    [ok |-> TRUE, code |-> <<>>, reason |-> NoVal, session |-> sess]

False_400(sess, reason) ==
    [ok |-> FALSE, code |-> <<400>>, reason |-> reason, session |-> sess]

\* utils.is_banned: whether a ban applies, and the seconds it still lasts;
\* 'user is banned from ... for: %ss' % duration
banned_for(what, duration) ==
    "user is banned from " \o what \o " for: " \o duration \o "s"

\* utils.channel_exists: C1 is the one channel there is
channel_exists(channel_id) == channel_id = "C1"

\* utils.room_exists / env.db.room_exists: the rooms of C1 are those of
\* RoomSeq; a blank id names no room
room_exists(channel_id, room_id) ==
    \E i \in 1..Len(rooms_for_channel(channel_id)) :
        rooms_for_channel(channel_id)[i] = room_id

\* utils.is_owner, is_owner_channel, is_moderator, is_admin: env.roles holds
\* <<role, room or channel, user>>
is_owner(env, room_id, user_id) == <<"owner", room_id, user_id>> \in env.roles

is_owner_channel(env, channel_id, user_id) ==
    <<"channel_owner", channel_id, user_id>> \in env.roles

is_moderator(env, room_id, user_id) ==
    <<"moderator", room_id, user_id>> \in env.roles

is_admin(env, user_id) == <<"admin", "", user_id>> \in env.roles

\* a faulty variant (C26): the channel is asked for whatever the objectType
on_message_always_needs_channel(a, env, sess) ==
    LET room_id == a.target_id
        from_room_id == a.actor_url
        channel_id == a.object_url
    IN  IF Blank(room_id)
        THEN False_400(sess, "no room id specified when sending message")
        ELSE IF Blank(channel_id)
        THEN False_400(sess, "no channel id specified when sending message")
        ELSE IF ~channel_exists(channel_id)
        THEN False_400(sess, "channel does not exists")
        ELSE IF ~room_exists(channel_id, room_id)
        THEN False_400(sess, "target room does not exist")
        ELSE IF /\ from_room_id # NoVal
                /\ from_room_id # room_id
                /\ ~room_exists(channel_id, from_room_id)
        THEN False_400(sess, "origin room does not exist")
        ELSE IF ~env.in_room /\ ~env.cross_group
        THEN False_400(sess, "user not allowed to send cross-group msg")
        ELSE True_None_None(sess)

on_message(a, env, sess) ==
    LET room_id == a.target_id
        from_room_id == a.actor_url
        channel_id == a.object_url
    IN  IF Blank(room_id)
        THEN False_400(sess, "no room id specified when sending message")
        ELSE IF a.target_type = "group"
        THEN IF Blank(channel_id)
             THEN False_400(sess, "no channel id specified when sending message")
             ELSE IF ~channel_exists(channel_id)
             THEN False_400(sess, "channel does not exists")
             ELSE IF ~room_exists(channel_id, room_id)
             THEN False_400(sess, "target room does not exist")
             ELSE IF /\ from_room_id # NoVal
                     /\ from_room_id # room_id
                     /\ ~room_exists(channel_id, from_room_id)
             THEN False_400(sess, "origin room does not exist")
             ELSE IF ~env.in_room /\ ~env.cross_group
             THEN False_400(sess, "user not allowed to send cross-group msg")
             ELSE True_None_None(sess)
        ELSE True_None_None(sess)

\* for attachment in activity.actor.attachments:
\*     environ.env.session[attachment.object_type] = attachment.content
RECURSIVE copy_attachments(_, _)
copy_attachments(sess, attachments) ==
    IF attachments = <<>> THEN sess
    ELSE copy_attachments([sess EXCEPT ![Head(attachments)[1]] =
                                           Head(attachments)[2]],
                          Tail(attachments))

\* BaseValidator.validate_login(user_id, token): the answer of the
\* authentication port and the session fields it returns
validate_login(env, user_id, token) ==
    IF env.login_ok
    THEN [is_valid |-> TRUE, error_msg |-> NoVal,
          session |-> [user_name |-> "name of " \o user_id]]
    ELSE [is_valid |-> FALSE, error_msg |-> "invalid token", session |-> <<>>]

on_login(a, env, sess) ==
    IF env.banned
    THEN False_400(sess, banned_for("chatting", env.duration))
    ELSE LET s1 == IF a.has_attachments
                   THEN copy_attachments(sess, a.attachments) ELSE sess
             login == validate_login(env, a.actor, s1["token"])
         IN  IF s1["token"] = NoVal
             THEN False_400(s1, "no token in session")
             ELSE IF ~login.is_valid
             THEN False_400(s1, login.error_msg)
             ELSE True_None_None(
                      [k \in SessionKeys |->
                          IF k \in DOMAIN login.session
                          THEN login.session[k] ELSE s1[k]])

on_ban(a, env, sess) ==
    LET room_id == a.target_id
        channel_id == a.object_url
        user_id == a.actor
        kicked_id == a.object_id
        is_global_ban == Blank(room_id)
    IN  IF BlankStripped(kicked_id)
        THEN False_400(sess, "got blank user id, can not ban")
        ELSE IF ~room_exists(channel_id, room_id)
        THEN False_400(sess, "no room with id exists")
        ELSE IF ~is_global_ban
        THEN IF ~is_owner(env, room_id, user_id)
             THEN False_400(sess, "only owners can ban")
             ELSE True_None_None(sess)
        ELSE IF ~is_admin(env, user_id)
        THEN False_400(sess, "only admins can do global bans")
        ELSE True_None_None(sess)

on_kick(a, env, sess) ==
    LET room_id == a.target_id
        channel_id == a.object_url
        user_id == a.target_name
    IN  IF BlankStripped(channel_id)
        THEN False_400(sess, "got blank channel id, can not kick")
        ELSE IF BlankStripped(room_id)
        THEN False_400(sess, "got blank room id, can not kick")
        ELSE IF BlankStripped(user_id)
        THEN False_400(sess, "got blank user id, can not kick")
        ELSE IF ~room_exists(channel_id, room_id)
        THEN False_400(sess, "no room with id exists")
        ELSE IF is_owner(env, room_id, user_id) THEN True_None_None(sess)
        ELSE IF is_owner_channel(env, channel_id, user_id)
        THEN True_None_None(sess)
        ELSE IF is_moderator(env, room_id, user_id) THEN True_None_None(sess)
        ELSE IF is_admin(env, user_id) THEN True_None_None(sess)
        ELSE False_400(sess, "only owners/admins/moderators can kick")

on_delete(a, env, sess) ==
    IF ~env.can_delete
    THEN False_400(sess, "not allowed to remove message in room")
    ELSE True_None_None(sess)

\* validation.acl.ACL_MATCHERS.keys()
ACL_MATCHERS == {"gender", "age"}

\* validation.acl.is_acl_valid(acl_type, acl_value)
is_acl_valid(acl_type, acl_value) ==
    \/ acl_type = "gender" /\ acl_value \in {"m", "f", "m,f"}
    \/ acl_type = "age" /\ acl_value \in {"18:25", "18:", ":25"}

\* a faulty variant (C22): only the first attachment is looked at
first_invalid_acl_of_one(acls) ==
    IF /\ acls # <<>>
       /\ \/ acls[1][1] \notin ACL_MATCHERS
          \/ ~is_acl_valid(acls[1][1], acls[1][2])
    THEN 1 ELSE 0

\* the place of the first attachment on_set_acl rejects, 0 if none
first_invalid_acl(acls) ==
    LET bad == {i \in 1..Len(acls) :
                   \/ acls[i][1] \notin ACL_MATCHERS
                   \/ ~is_acl_valid(acls[i][1], acls[i][2])}
    IN  IF bad = {} THEN 0 ELSE CHOOSE i \in bad : \A j \in bad : i <= j

on_set_acl(a, env, sess) ==
    LET user_id == a.actor
        room_id == a.target_id
        acls == a.object_attachments
        i == first_invalid_acl(acls)
    IN  IF ~is_owner(env, room_id, user_id)
        THEN False_400(sess, "user not an owner of room")
        ELSE IF i = 0 THEN True_None_None(sess)
        ELSE IF acls[i][1] \notin ACL_MATCHERS
        THEN False_400(sess, "invalid acl type")
        ELSE False_400(sess, "invalid acl value")

\* a faulty variant (C21): the ban is looked up before the ACLs
on_join_checks_ban_first(a, env, sess) ==
    IF env.banned
    THEN False_400(sess, banned_for("joining room", env.duration))
    ELSE IF ~env.acl_ok THEN False_400(sess, env.acl_error)
    ELSE True_None_None(sess)

on_join(a, env, sess) ==
    IF ~env.acl_ok THEN False_400(sess, env.acl_error)
    ELSE IF env.banned
    THEN False_400(sess, banned_for("joining room", env.duration))
    ELSE True_None_None(sess)

\* hasattr(activity, 'target') and hasattr(activity.target, 'id'); likewise
\* a.has_attachments is `activity.actor.attachments is not None`
on_leave(a, env, sess) ==
    IF ~a.has_target
    THEN False_400(sess, "room_id is None when trying to leave room")
    ELSE True_None_None(sess)

on_list_channels(a, env, sess) == True_None_None(sess)

on_list_rooms(a, env, sess) ==
    IF Blank(a.object_url)
    THEN False_400(sess, "need channel ID to list rooms")
    ELSE True_None_None(sess)

on_users_in_room(a, env, sess) == True_None_None(sess)

on_history(a, env, sess) ==
    IF BlankStripped(a.target_id) THEN False_400(sess, "invalid target id")
    ELSE IF ~env.acl_ok THEN False_400(sess, env.acl_error)
    ELSE True_None_None(sess)

on_status(a, env, sess) ==
    IF sess["user_name"] = NoVal
    THEN False_400(sess, "no user name in session")
    ELSE IF ~env.request_ok THEN False_400(sess, "invalid request")
    ELSE IF a.verb \notin {"online", "offline", "invisible"}
    THEN False_400(sess, "invalid status")
    ELSE True_None_None(sess)

on_get_acl(a, env, sess) == True_None_None(sess)

on_create(a, env, sess) ==
    IF BlankStripped(a.target_name)
    THEN False_400(sess, "got blank room name, can not create")
    ELSE IF ~channel_exists(a.object_url)
    THEN False_400(sess, "channel does not exist")
    ELSE IF env.room_name_exists
    THEN False_400(sess, "a room with that name already exists")
    ELSE True_None_None(sess)

\* the fields of an activity the handlers read, and the answers of the ports
NoActivity ==
    [verb |-> NoVal, actor |-> NoVal, actor_url |-> NoVal,
     has_attachments |-> FALSE, attachments |-> <<>>, object_id |-> NoVal,
     object_url |-> NoVal, object_attachments |-> <<>>,
     has_target |-> TRUE, target_id |-> NoVal, target_type |-> NoVal,
     target_name |-> NoVal]

NoAnswers ==
    [banned |-> FALSE, duration |-> "0", login_ok |-> FALSE,
     acl_error |-> NoVal, in_room |-> FALSE,
     cross_group |-> FALSE, can_delete |-> FALSE, acl_ok |-> FALSE,
     request_ok |-> FALSE, room_name_exists |-> FALSE, roles |-> {}]

\* no handler has been called
NoReply ==
    [handler |-> NoVal, a |-> NoActivity, env |-> NoAnswers,
     before |-> [k \in SessionKeys |-> NoVal],
     ok |-> FALSE, code |-> <<>>, reason |-> NoVal, status |-> <<>>]

\* no client is being served
NoClient ==
    /\ session = [k \in SessionKeys |-> NoVal]
    /\ reply = NoReply
    /\ stored_acls = {}

----------------------------------------------------------------------------
\* The ACL expressions (dino/validation/acl.py, AclPatternValidator).  An
\* expression is the sequence of its tokens: a word or a punctuation mark is
\* W(text), a number is N(value).

W(text) == [c |-> text, n |-> 0]

N(value) == [c |-> "#", n |-> value]

Punctuation == {"|", ",", "=", "!", ":", "(", ")"}

IsNumber(t) == t.c = "#"

IsWord(t) == ~IsNumber(t) /\ t.c \notin Punctuation

\* environ.env.config[ConfigKeys.ACL]['validation'] as the tests set it up:
\* the values a str_in_csv attribute allows, and the range attribute
AclStrInCsv ==
    [gender |-> {"m", "f", "ts"}, membership |-> {"n", "tg", "tg_p"}]

AclRange == {"age"}

\* values.split(sep), on tokens
RECURSIVE SplitOn(_, _)
SplitOn(tokens, sep) ==
    LET at == {i \in 1..Len(tokens) : tokens[i] = W(sep)}
    IN  IF at = {} THEN << tokens >>
        ELSE LET i == CHOOSE i \in at : \A j \in at : i <= j
             IN  << SubSeq(tokens, 1, i - 1) >> \o
                 SplitOn(SubSeq(tokens, i + 1, Len(tokens)), sep)

\* The grammar check of validate_new_acl, token by token: `at` is what the
\* check expects next, depth counts the open parentheses and key is the
\* attribute of the term being read.  The result is "ok" or the cause of the
\* ValidationException.
RECURSIVE scan_new_acl(_, _, _, _)
scan_new_acl(tokens, at, depth, key) ==
    IF tokens = <<>>
    THEN CASE at \in {"separator", "lower", "upper", "closed"} ->
                IF depth = 0 THEN "ok" ELSE "missing parenthesis"
           [] at = "key" -> "missing value"
           [] at = "equals" -> "missing ="
           [] OTHER -> "empty value"
    ELSE LET t == Head(tokens)
             rest == Tail(tokens)
             \* the value of a term: the attribute's own validate_new_acl
             value ==
                 IF IsWord(t)
                 THEN IF key \in DOMAIN AclStrInCsv /\ t.c \in AclStrInCsv[key]
                      THEN scan_new_acl(rest, "separator", depth, key)
                      ELSE "invalid value"
                 ELSE IF key \notin AclRange THEN "empty value"
                 ELSE IF IsNumber(t) THEN scan_new_acl(rest, "lower", depth, key)
                 ELSE IF t = W(":") THEN scan_new_acl(rest, "upper", depth, key)
                 ELSE "empty value"
             \* what may follow a complete term
             separator ==
                 IF t \in {W(","), W("|")}
                 THEN scan_new_acl(rest, "key", depth, key)
                 ELSE IF t = W(")")
                 THEN IF depth = 1 /\ at # "closed"
                      THEN scan_new_acl(rest, "closed", 0, key)
                      ELSE "missing parenthesis"
                 ELSE "missing comma"
         IN  CASE at = "key" ->
                    IF t = W("(")
                    THEN IF depth = 0 THEN scan_new_acl(rest, "key", 1, key)
                         ELSE "nested parenthesis"
                    ELSE IF ~IsWord(t) THEN "missing key"
                    ELSE IF t.c \notin DOMAIN AclStrInCsv \cup AclRange
                    THEN "unknown attribute"
                    ELSE scan_new_acl(rest, "equals", depth, t.c)
               [] at = "equals" ->
                    IF t = W("=") THEN scan_new_acl(rest, "value", depth, key)
                    ELSE "missing ="
               [] at = "value" ->
                    IF t = W("!") THEN scan_new_acl(rest, "negated", depth, key)
                    ELSE value
               [] at = "negated" -> value
               [] at = "lower" ->
                    IF t = W(":") THEN scan_new_acl(rest, "upper", depth, key)
                    ELSE "invalid range"
               [] at = "upper" ->
                    IF IsNumber(t)
                    THEN scan_new_acl(rest, "separator", depth, key)
                    ELSE separator
               [] OTHER -> separator

\* a faulty variant (C25): only a blank pattern is turned away
validate_new_acl_checks_blank_only(values) ==
    IF values = <<>> THEN "blank pattern" ELSE "ok"

\* AclPatternValidator.validate_new_acl(values): "ok", or the cause of the
\* ValidationException it raises
validate_new_acl(values) ==
    IF values = <<>> THEN "blank pattern"
    ELSE scan_new_acl(values, "key", 0, NoVal)

\* AclRangeValidator: the session's value lies in lo:hi, both ends included
\* and each of them optional
range_holds(raw, value) ==
    LET ends == SplitOn(raw, ":")
        lo == ends[1]
        hi == ends[2]
    IN  /\ IsNumber(value)
        /\ lo = <<>> \/ lo[1].n <= value.n
        /\ hi = <<>> \/ value.n <= hi[1].n

\* a faulty variant (C24): the '!' of a range is dropped
term_holds_forgets_negated_range(term, sess) ==
    LET sides == SplitOn(SelectSeq(term, LAMBDA t : t.c \notin {"(", ")"}),
                         "=")
        key == sides[1][1].c
        negated == sides[2][1] = W("!")
        raw == IF negated THEN Tail(sides[2]) ELSE sides[2]
    IN  /\ key \in DOMAIN sess
        /\ IF \E i \in 1..Len(raw) : raw[i] = W(":")
           THEN range_holds(raw, sess[key])
           ELSE negated # (sess[key] = raw[1])

\* one term key=value or key=!value against the session; parentheses are
\* no part of a term
term_holds(term, sess) ==
    LET sides == SplitOn(SelectSeq(term, LAMBDA t : t.c \notin {"(", ")"}),
                         "=")
        key == sides[1][1].c
        negated == sides[2][1] = W("!")
        raw == IF negated THEN Tail(sides[2]) ELSE sides[2]
    IN  /\ key \in DOMAIN sess
        /\ negated #
               IF \E i \in 1..Len(raw) : raw[i] = W(":")
               THEN range_holds(raw, sess[key])
               ELSE sess[key] = raw[1]

\* AclPatternValidator.__call__(activity, env, 'custom', pattern): is_valid
AclPatternValidator(pattern, sess) ==
    LET or_groups == SplitOn(pattern, "|")
    IN  \E i \in 1..Len(or_groups) :
            LET and_groups == SplitOn(or_groups[i], ",")
            IN  \A j \in 1..Len(and_groups) : term_holds(and_groups[j], sess)

\* no ACL expression is being looked at
NoAcl ==
    [pattern |-> <<>>, clauses |-> <<>>, damage |-> NoVal,
     sess |-> [gender |-> W(NoVal), membership |-> W(NoVal), age |-> N(0)],
     step |-> NoVal, cause |-> NoVal, is_valid |-> FALSE]

----------------------------------------------------------------------------
\* The cluster

\* the internal bus is a fanout exchange: a published envelope is queued
\* for every node of the cluster, the publishing node included
fanout(boxes, id, copies) ==
    [m \in Nodes |-> IF m \in cluster /\ copies > 0
                     THEN Append(boxes[m], id) ELSE boxes[m]]

\* how many calls of the run fx went to one of the ports ops
CountOps(fx, ops) ==
    Cardinality({i \in 1..Len(fx) : fx[i][1] \in ops})

Broadcasts == {"gn_user_banned", "gn_user_kicked", "gn_banned", "gn_room_removed"}

NoCalls ==
    [received |-> 0, handled |-> 0, persisted |-> 0, republished |-> 0,
     emitted |-> 0, notified |-> 0]

\* the victim is connected to at most one node (owner) and is there in the
\* rooms rs, which are the rooms the persistence store lists for it
World(owner, rs) ==
    /\ sio = [n \in Nodes |-> IF n = owner THEN {Sid} \cup rs ELSE {}]
    /\ dbRooms = (IF owner = NoVal THEN {} ELSE rs)
    /\ online = (owner # NoVal)
    /\ bans = {}
    /\ recently_delegated_events = [n \in Nodes |-> <<>>]
    /\ recently_delegated_events_set = [n \in Nodes |-> {}]
    /\ recently_handled_events = [n \in Nodes |-> <<>>]
    /\ recently_handled_events_set = [n \in Nodes |-> {}]
    /\ last = [n \in Nodes |-> [id |-> 0, ran |-> FALSE, fx |-> <<>>,
                                 failed |-> <<>>, raised |-> NoVal,
                                 sent |-> <<>>]]
    /\ calls = [n \in Nodes |-> [i \in NamedIds |-> NoCalls]]
    /\ fill = 0

Init ==
    /\ cluster = Nodes
    /\ nodeType \in {t \in [Nodes -> {"app", "rest"}] : t["A"] = "app"}
    /\ \E a \in {<<"0", {}>>, <<"U1", {"U1"}>>, <<"U1", {}>>} :
           actor = a[1] /\ knownUsers = a[2]
    /\ \E i \in NamedIds : live = {i}
    /\ budget = MaxArrivals
    /\ inboxCap = MaxInbox
    /\ undeleted \in {{}, MsgSet}
    /\ \E owner \in {n \in Nodes : nodeType[n] = "app"} \cup {NoVal} :
           \E rs \in SUBSET RoomSet :
               /\ owner = NoVal => rs = {}
               /\ World(owner, rs)
    /\ inbox = [n \in Nodes |-> <<>>]
    /\ fault = NoFault
    /\ NoClient
    /\ acl = NoAcl

\* an envelope of the run arrives at node n from the internal bus
Arrive(n, id) ==
    /\ n \in cluster
    /\ id \in live
    /\ budget > 0
    /\ Len(inbox[n]) < inboxCap
    /\ budget' = budget - 1
    /\ inbox' = [inbox EXCEPT ![n] = Append(@, id)]
    /\ UNCHANGED << cluster, nodeType, actor, knownUsers, live, fill, inboxCap, sio,
                    dbRooms, bans, online, undeleted,
                    recently_delegated_events, recently_delegated_events_set,
                    recently_handled_events, recently_handled_events_set,
                    last, calls, fault, session, reply, stored_acls, acl >>

\* an envelope with an id never seen before arrives at node n
Fill(n) ==
    /\ n \in cluster
    /\ fill < MaxFill
    /\ Len(inbox[n]) < inboxCap
    /\ fill' = fill + 1
    /\ inbox' = [inbox EXCEPT ![n] = Append(@, Len(Catalog) + fill + 1)]
    /\ UNCHANGED << cluster, nodeType, actor, knownUsers, live, budget, inboxCap, sio,
                    dbRooms, bans, online, undeleted,
                    recently_delegated_events, recently_delegated_events_set,
                    recently_handled_events, recently_handled_events_set,
                    last, calls, fault, session, reply, stored_acls, acl >>

\* the state a run of node n starts from
Start(n) ==
    [fx |-> <<>>, out |-> 0, sent |-> <<>>, ran |-> FALSE, persisted |-> 0,
     exc |-> NoVal, failed |-> <<>>,
     sioN |-> sio[n], dbRooms |-> dbRooms, bans |-> bans, online |-> online,
     undeleted |-> undeleted,
     dq |-> recently_delegated_events[n],
     ds |-> recently_delegated_events_set[n],
     hq |-> recently_handled_events[n],
     hs |-> recently_handled_events_set[n]]

\* node n takes the next envelope of its queue and runs handle_server_activity
Receive(n) ==
    /\ n \in cluster
    /\ inbox[n] # <<>>
    /\ LET id == Head(inbox[n])
           st == handle_server_activity(Start(n), n, EnvOf(id))
       IN  /\ inbox' = fanout([inbox EXCEPT ![n] = Tail(@)], id, st.out)
           /\ sio' = [sio EXCEPT ![n] = st.sioN]
           /\ dbRooms' = st.dbRooms
           /\ bans' = st.bans
           /\ online' = st.online
           /\ undeleted' = st.undeleted
           /\ recently_delegated_events' =
                  [recently_delegated_events EXCEPT ![n] = st.dq]
           /\ recently_delegated_events_set' =
                  [recently_delegated_events_set EXCEPT ![n] = st.ds]
           /\ recently_handled_events' =
                  [recently_handled_events EXCEPT ![n] = st.hq]
           /\ recently_handled_events_set' =
                  [recently_handled_events_set EXCEPT ![n] = st.hs]
           /\ last' = [last EXCEPT ![n] = [id |-> id, ran |-> st.ran, fx |-> st.fx,
                                           failed |-> st.failed,
                                           raised |-> st.exc,
                                           sent |-> st.sent]]
           /\ fault' = IF st.failed = <<>> THEN fault ELSE NoFault
           /\ calls' = IF id \in NamedIds
                       THEN [calls EXCEPT ![n][id] =
                                [received |-> @.received + 1,
                                 handled |-> @.handled + (IF st.ran THEN 1 ELSE 0),
                                 persisted |-> @.persisted + st.persisted,
                                 republished |-> @.republished + st.out,
                                 emitted |-> @.emitted + CountOps(st.fx, Broadcasts),
                                 notified |-> @.notified + CountOps(st.fx, {"gn_banned"})]]
                       ELSE calls
    /\ UNCHANGED << cluster, nodeType, actor, knownUsers, live, budget, fill,
                    inboxCap, session, reply, stored_acls, acl >>

Next ==
    \/ \E n \in Nodes : \E id \in NamedIds : Arrive(n, id)
    \/ \E n \in Nodes : Receive(n)

Spec == Init /\ [][Next]_vars

\* A single-node cluster: an envelope has just arrived (the room ban, id 1,
\* or the message, the last id); it is followed by fresh envelopes until
\* both dedup windows have overflowed, and is delivered again in between.
InitWindow ==
    /\ cluster = {"A"}
    /\ nodeType = [n \in Nodes |-> "app"]
    /\ actor = "0"
    /\ knownUsers = {}
    /\ \E i \in {1, Len(Catalog)} :
           /\ live = {i}
           /\ inbox = [n \in Nodes |-> IF n = "A" THEN <<i>> ELSE <<>>]
    /\ budget = MaxRedeliveries
    /\ inboxCap = 1
    /\ undeleted = {}
    /\ World(NoVal, {})
    /\ fault = NoFault
    /\ NoClient
    /\ acl = NoAcl

NextWindow ==
    \/ \E id \in NamedIds : Arrive("A", id)
    \/ Fill("A")
    \/ Receive("A")

SpecWindow == InitWindow /\ [][NextWindow]_vars

\* A single-node cluster that is delivered one envelope again and again.
InitRepeat ==
    /\ cluster = {"A"}
    /\ nodeType = [n \in Nodes |-> "app"]
    /\ \E a \in {<<"0", {}>>, <<"U1", {"U1"}>>, <<"U1", {}>>} :
           actor = a[1] /\ knownUsers = a[2]
    /\ \E i \in NamedIds : live = {i}
    /\ budget = MaxRepeat
    /\ inboxCap = 1
    /\ undeleted \in {{}, MsgSet}
    /\ \E w \in {<<NoVal, {}>>, <<"A", {"R1"}>>, <<"A", {"R1", "R2"}>>} :
           World(w[1], w[2])
    /\ inbox = [n \in Nodes |-> <<>>]
    /\ fault = NoFault
    /\ NoClient
    /\ acl = NoAcl

NextRepeat ==
    \/ \E id \in NamedIds : Arrive("A", id)
    \/ Receive("A")

SpecRepeat == InitRepeat /\ [][NextRepeat]_vars

\* the port calls of the dispatcher that are made to fail, by port and by
\* the argument that tells the call apart
FaultCalls ==
    { <<"db.ban_user_room", "R1">>, <<"db.ban_user_channel", "C1">>,
      <<"db.ban_user_global", "">>, <<"publish", "-">>,
      <<"publish_external", "ban">>, <<"publish_external", "kick">>,
      <<"publish_external", "activity">>, <<"gn_user_banned", "R1">>,
      <<"gn_user_kicked", "R1">>, <<"gn_banned", Sid>>,
      <<"socketio.leave_room", "R1">>, <<"db.leave_room", "R1">>,
      <<"storage.delete_message", "m1">>, <<"db.set_user_offline", "-">>,
      <<"gn_room_removed", WS>> }

\* A single-node cluster one of whose port calls raises the next time it is
\* made (a transient failure: the call works again afterwards); one envelope
\* is delivered, and delivered again.
InitFault ==
    /\ cluster = {"A"}
    /\ nodeType = [n \in Nodes |-> "app"]
    /\ \E a \in {<<"0", {}>>, <<"U1", {"U1"}>>, <<"U1", {}>>} :
           actor = a[1] /\ knownUsers = a[2]
    /\ \E i \in NamedIds : live = {i}
    /\ budget = MaxArrivals
    /\ inboxCap = 1
    /\ undeleted \in {{}, MsgSet}
    /\ \E w \in {<<NoVal, {}>>, <<"A", {"R1"}>>, <<"A", {"R2"}>>,
                  <<"A", {"R1", "R2"}>>} :
           World(w[1], w[2])
    /\ inbox = [n \in Nodes |-> <<>>]
    /\ \/ \E c \in FaultCalls : \E k \in AnyException :
              fault = [op |-> c[1], at |-> c[2], kind |-> k]
       \/ fault = SidLost
    /\ NoClient
    /\ acl = NoAcl

NextFault ==
    \/ \E id \in NamedIds : Arrive("A", id)
    \/ Receive("A")

SpecFault == InitFault /\ [][NextFault]_vars

\* the seconds a ban may still last, as utils.is_banned reports them
Durations == {"30", "3600"}

\* the error_msg of validation.acl.validate_acl when an ACL does not hold
AclError == "acl does not allow the user"

\* the roles the users U1 (who acts) and U2 may hold: none, or one role of
\* one of them in room R1, in channel C1 or globally
RoleSets ==
    {{}} \cup
    {{<<r[1], r[2], u>>} :
        r \in {<<"owner", "R1">>, <<"channel_owner", "C1">>,
               <<"moderator", "R1">>, <<"admin", "">>},
        u \in {"U1", "U2"}}

\* the status of the operation's response (dino.api): 200 once the handler
\* has accepted the activity, else the handler's code
response_status(r) == IF r.ok THEN <<200>> ELSE r.code

\* the handler h is called with activity a while the ports answer env, and
\* returns r; the client's requests are validated one at a time
Validate(h, a, env, r) ==
    /\ reply = NoReply
    /\ reply' = [handler |-> h, a |-> a, env |-> env, before |-> session,
                 ok |-> r.ok, code |-> r.code, reason |-> r.reason,
                 status |-> response_status(r)]
    /\ session' = r.session
    /\ UNCHANGED << stored_acls, acl, queue_vars >>

OnMessage ==
    \E t \in {NoVal, "", "R1", "R9"}, ty \in {NoVal, "group", "room"},
       c \in {NoVal, "", "C1", "C9"}, f \in {NoVal, "R1", "R2", "R9"},
       i \in BOOLEAN, x \in BOOLEAN :
        LET a == [NoActivity EXCEPT !.actor = "U1", !.actor_url = f,
                                    !.object_url = c, !.target_id = t,
                                    !.target_type = ty]
            env == [NoAnswers EXCEPT !.in_room = i, !.cross_group = x]
        IN  Validate("on_message", a, env, on_message(a, env, session))

OnLogin ==
    \E h \in BOOLEAN,
       att \in {<<>>, << <<"gender", "f">> >>, << <<"token", "t1">> >>,
                << <<"gender", "m">>, <<"token", "t2">> >>},
       b \in BOOLEAN, l \in BOOLEAN, d \in Durations :
        LET a == [NoActivity EXCEPT !.actor = "U1", !.has_attachments = h,
                                    !.attachments = IF h THEN att ELSE <<>>]
            env == [NoAnswers EXCEPT !.banned = b, !.login_ok = l,
                                     !.duration = IF b THEN d ELSE "0"]
        IN  Validate("on_login", a, env, on_login(a, env, session))

OnBan ==
    \E t \in {NoVal, "", "R1", "R9"}, c \in {NoVal, "C1"},
       k \in {NoVal, " ", "U2"}, roles \in RoleSets :
        LET a == [NoActivity EXCEPT !.actor = "U1", !.object_id = k,
                                    !.object_url = c, !.target_id = t]
            env == [NoAnswers EXCEPT !.roles = roles]
        IN  Validate("on_ban", a, env, on_ban(a, env, session))

OnKick ==
    \E t \in {NoVal, " ", "R1", "R9"}, c \in {NoVal, " ", "C1"},
       k \in {NoVal, " ", "U2"}, roles \in RoleSets :
        LET a == [NoActivity EXCEPT !.actor = "U1", !.object_id = k,
                                    !.object_url = c, !.target_id = t,
                                    !.target_name = k]
            env == [NoAnswers EXCEPT !.roles = roles]
        IN  Validate("on_kick", a, env, on_kick(a, env, session))

OnDelete ==
    \E d \in BOOLEAN :
        LET a == [NoActivity EXCEPT !.actor = "U1", !.target_id = "R1"]
            env == [NoAnswers EXCEPT !.can_delete = d]
        IN  Validate("on_delete", a, env, on_delete(a, env, session))

OnSetAcl ==
    \E att \in {<<>>, << <<"gender", "m,f">> >>, << <<"colour", "red">> >>,
                << <<"gender", "f">>, <<"age", "18:25">> >>,
                << <<"gender", "f">>, <<"age", "x">> >>},
       roles \in RoleSets :
        LET a == [NoActivity EXCEPT !.actor = "U1", !.target_id = "R1",
                                    !.object_attachments = att]
            env == [NoAnswers EXCEPT !.roles = roles]
        IN  Validate("on_set_acl", a, env, on_set_acl(a, env, session))

OnJoin ==
    \E ok \in BOOLEAN, b \in BOOLEAN, d \in Durations :
        LET a == [NoActivity EXCEPT !.actor = "U1", !.target_id = "R1"]
            env == [NoAnswers EXCEPT
                       !.acl_ok = ok, !.banned = b,
                       !.acl_error = IF ok THEN NoVal ELSE AclError,
                       !.duration = IF b THEN d ELSE "0"]
        IN  Validate("on_join", a, env, on_join(a, env, session))

OnLeave ==
    \E h \in BOOLEAN :
        LET a == [NoActivity EXCEPT !.actor = "U1", !.has_target = h,
                                    !.target_id = IF h THEN "R1" ELSE NoVal]
        IN  Validate("on_leave", a, NoAnswers, on_leave(a, NoAnswers, session))

OnListChannels ==
    LET a == [NoActivity EXCEPT !.actor = "U1"]
    IN  Validate("on_list_channels", a, NoAnswers,
                 on_list_channels(a, NoAnswers, session))

OnListRooms ==
    \E c \in {NoVal, "", "C1"} :
        LET a == [NoActivity EXCEPT !.actor = "U1", !.object_url = c]
        IN  Validate("on_list_rooms", a, NoAnswers,
                     on_list_rooms(a, NoAnswers, session))

OnUsersInRoom ==
    LET a == [NoActivity EXCEPT !.actor = "U1", !.target_id = "R1"]
    IN  Validate("on_users_in_room", a, NoAnswers,
                 on_users_in_room(a, NoAnswers, session))

OnHistory ==
    \E t \in {NoVal, " ", "R1"}, ok \in BOOLEAN :
        LET a == [NoActivity EXCEPT !.actor = "U1", !.target_id = t]
            env == [NoAnswers EXCEPT
                       !.acl_ok = ok,
                       !.acl_error = IF ok THEN NoVal ELSE AclError]
        IN  Validate("on_history", a, env, on_history(a, env, session))

OnStatus ==
    \E v \in {"online", "offline", "invisible", "away"}, ok \in BOOLEAN :
        LET a == [NoActivity EXCEPT !.actor = "U1", !.verb = v]
            env == [NoAnswers EXCEPT !.request_ok = ok]
        IN  Validate("on_status", a, env, on_status(a, env, session))

OnGetAcl ==
    LET a == [NoActivity EXCEPT !.actor = "U1", !.target_id = "R1"]
    IN  Validate("on_get_acl", a, NoAnswers, on_get_acl(a, NoAnswers, session))

OnCreate ==
    \E nm \in {NoVal, " ", "lobby"}, c \in {NoVal, "C1"}, x \in BOOLEAN :
        LET a == [NoActivity EXCEPT !.actor = "U1", !.object_url = c,
                                    !.target_name = nm]
            env == [NoAnswers EXCEPT !.room_name_exists = x]
        IN  Validate("on_create", a, env, on_create(a, env, session))

\* The caller of the handler has taken the triple; after a set_acl that the
\* validator accepted it stores the ACLs of the request.
Respond ==
    /\ reply # NoReply
    /\ reply' = NoReply
    /\ stored_acls' = IF reply.handler = "on_set_acl" /\ reply.ok
                      THEN stored_acls \cup
                               {reply.a.object_attachments[i] :
                                   i \in 1..Len(reply.a.object_attachments)}
                      ELSE stored_acls
    /\ UNCHANGED << session, acl, queue_vars >>

\* A client that has just connected, with an empty session; no envelope is
\* on the internal bus.
InitValidator ==
    /\ cluster = {}
    /\ nodeType = [n \in Nodes |-> "app"]
    /\ actor = "0"
    /\ knownUsers = {}
    /\ live = {}
    /\ budget = 0
    /\ inboxCap = 0
    /\ undeleted = {}
    /\ World(NoVal, {})
    /\ inbox = [n \in Nodes |-> <<>>]
    /\ fault = NoFault
    /\ NoClient
    /\ acl = NoAcl

NextValidator ==
    \/ OnMessage
    \/ OnLogin
    \/ OnBan
    \/ OnKick
    \/ OnDelete
    \/ OnSetAcl
    \/ OnJoin
    \/ OnLeave
    \/ OnListChannels
    \/ OnListRooms
    \/ OnUsersInRoom
    \/ OnHistory
    \/ OnStatus
    \/ OnGetAcl
    \/ OnCreate
    \/ Respond

SpecValidator == InitValidator /\ [][NextValidator]_vars

----------------------------------------------------------------------------
\* The ACL expressions that are validated and evaluated

\* the clauses of an expression
MaxClauses == 2

\* a term of an expression: key=word, key=lo:hi, or their negations
StrTerm(key, negated, word) ==
    [key |-> key, negated |-> negated, range |-> FALSE, word |-> word,
     lo |-> <<>>, hi |-> <<>>]

RangeTerm(key, negated, lo, hi) ==
    [key |-> key, negated |-> negated, range |-> TRUE, word |-> NoVal,
     lo |-> lo, hi |-> hi]

GenderTerms == {StrTerm("gender", FALSE, "f"), StrTerm("gender", TRUE, "m")}

MembershipTerms ==
    {StrTerm("membership", FALSE, "tg_p"), StrTerm("membership", TRUE, "tg")}

AgeTerms ==
    {RangeTerm("age", FALSE, <<34>>, <<40>>), RangeTerm("age", TRUE, <<65>>, <<>>),
     RangeTerm("age", FALSE, <<>>, <<25>>)}

\* the clauses: one term, or two terms of different attributes
Clauses ==
    {<< t >> : t \in GenderTerms \cup MembershipTerms \cup AgeTerms} \cup
    {<< t, u >> : t \in GenderTerms, u \in MembershipTerms \cup AgeTerms} \cup
    {<< t, u >> : t \in MembershipTerms, u \in AgeTerms}

\* the sessions: the one of the tests and those of the spec's scenarios
Sessions ==
    {[gender |-> W("f"), membership |-> W("n"), age |-> N(61)],
     [gender |-> W("f"), membership |-> W("tg_p"), age |-> N(38)],
     [gender |-> W("m"), membership |-> W("tg"), age |-> N(25)]}

RenderTerm(t) ==
    << W(t.key), W("=") >> \o
    (IF t.negated THEN << W("!") >> ELSE <<>>) \o
    (IF t.range
     THEN [i \in 1..Len(t.lo) |-> N(t.lo[i])] \o << W(":") >> \o
          [i \in 1..Len(t.hi) |-> N(t.hi[i])]
     ELSE << W(t.word) >>)

\* sep.join(parts), on tokens
RECURSIVE Join(_, _)
Join(parts, sep) ==
    IF Len(parts) = 1 THEN parts[1]
    ELSE parts[1] \o << W(sep) >> \o Join(Tail(parts), sep)

\* the text of an expression; a clause of several terms may stand in
\* parentheses
Render(clauses, parentheses) ==
    Join([i \in 1..Len(clauses) |->
             LET text == Join([j \in 1..Len(clauses[i]) |->
                                  RenderTerm(clauses[i][j])], ",")
             IN  IF parentheses /\ Len(clauses[i]) > 1
                 THEN << W("(") >> \o text \o << W(")") >>
                 ELSE text],
         "|")

\* 'gender=f,(membership=tg_p|membership=tg),(age=34:40|age=21:25)'
NewPattern ==
    << W("gender"), W("="), W("f"), W(","),
       W("("), W("membership"), W("="), W("tg_p"), W("|"),
               W("membership"), W("="), W("tg"), W(")"), W(","),
       W("("), W("age"), W("="), N(34), W(":"), N(40), W("|"),
               W("age"), W("="), N(21), W(":"), N(25), W(")") >>

\* 'gender=f,(membership=tg_p|membership=tg,(age=34:40|age=21:25))'
NestedPattern ==
    SubSeq(NewPattern, 1, 12) \o SubSeq(NewPattern, 14, 27) \o << W(")") >>

\* the text without its i-th token; two words that meet become one word
Without(tokens, i) ==
    LET left == SubSeq(tokens, 1, i - 1)
        right == SubSeq(tokens, i + 1, Len(tokens))
    IN  IF left # <<>> /\ right # <<>> /\ IsWord(left[Len(left)])
           /\ IsWord(right[1])
        THEN SubSeq(left, 1, Len(left) - 1) \o
             << W(left[Len(left)].c \o right[1].c) >> \o Tail(right)
        ELSE left \o right

\* what an expression lacks once its i-th token is gone
Lacks(tokens, i) ==
    CASE tokens[i] = W(",") -> "comma"
      [] tokens[i] \in {W("("), W(")")} -> "parenthesis"
      [] tokens[i] = W("|") -> "|"
      [] tokens[i] = W("=") -> "="
      [] IsWord(tokens[i]) /\ i > 1 /\ tokens[i - 1] \in {W("="), W("!")} ->
             "value"
      [] OTHER -> "nothing"

\* the well-formed expressions that are damaged: that of test_new_pattern
\* and two without inner alternatives
Sound ==
    {NewPattern,
     Render(<< << StrTerm("gender", TRUE, "m"), StrTerm("membership", TRUE, "tg") >>,
               << StrTerm("gender", FALSE, "f"),
                  RangeTerm("age", FALSE, <<60>>, <<>>) >> >>, FALSE),
     Render(<< << RangeTerm("age", TRUE, <<65>>, <<>>) >>,
               << StrTerm("gender", FALSE, "m"),
                  StrTerm("membership", FALSE, "n") >> >>, TRUE)}

AclInput(pattern, clauses, damage, sess) ==
    [NoAcl EXCEPT !.pattern = pattern, !.clauses = clauses,
                  !.damage = damage, !.sess = sess, !.step = "new"]

TestSession == [gender |-> W("f"), membership |-> W("n"), age |-> N(61)]

\* the expressions handed to validate_new_acl: the sound ones, each of them
\* one token short, a nested and a blank one, 'gender=' and 'gender'
NewAcls ==
    {AclInput(p, <<>>, "nothing", TestSession) : p \in Sound} \cup
    {AclInput(Without(p[1], p[2]), <<>>, Lacks(p[1], p[2]), TestSession) :
        p \in {q \in Sound \X (1..Len(NewPattern)) :
                  q[2] <= Len(q[1]) /\ Lacks(q[1], q[2]) # "nothing"}} \cup
    {AclInput(NestedPattern, <<>>, "nesting", TestSession),
     AclInput(<<>>, <<>>, "everything", TestSession),
     AclInput(<< W("gender"), W("=") >>, <<>>, "value", TestSession),
     AclInput(<< W("gender") >>, <<>>, "=", TestSession)}

\* sequences of at most n clauses
RECURSIVE ClauseSeqs(_)
ClauseSeqs(n) ==
    IF n = 1 THEN {<< c >> : c \in Clauses}
    ELSE ClauseSeqs(n - 1) \cup
         {Append(cs, c) : cs \in ClauseSeqs(n - 1), c \in Clauses}

\* the stored expressions that are evaluated against a session
StoredAcls ==
    {AclInput(Render(cs, par), cs, "nothing", sess) :
        cs \in ClauseSeqs(MaxClauses), par \in BOOLEAN, sess \in Sessions}

\* validate_new_acl is applied to the expression
ValidateNewAcl ==
    /\ acl.step = "new"
    /\ acl' = [acl EXCEPT !.step = "validated",
                          !.cause = validate_new_acl(acl.pattern)]
    /\ UNCHANGED << session, reply, stored_acls, queue_vars >>

\* an expression that was accepted is evaluated against the session
CheckAcl ==
    /\ acl.step = "validated"
    /\ acl.cause = "ok"
    /\ acl' = [acl EXCEPT !.step = "evaluated",
                          !.is_valid = AclPatternValidator(acl.pattern,
                                                           acl.sess)]
    /\ UNCHANGED << session, reply, stored_acls, queue_vars >>

InitAcl ==
    /\ cluster = {}
    /\ nodeType = [n \in Nodes |-> "app"]
    /\ actor = "0"
    /\ knownUsers = {}
    /\ live = {}
    /\ budget = 0
    /\ inboxCap = 0
    /\ undeleted = {}
    /\ World(NoVal, {})
    /\ inbox = [n \in Nodes |-> <<>>]
    /\ fault = NoFault
    /\ NoClient
    /\ acl \in NewAcls \cup StoredAcls

NextAcl ==
    \/ ValidateNewAcl
    \/ CheckAcl

SpecAcl == InitAcl /\ [][NextAcl]_vars

----------------------------------------------------------------------------
\* Vocabulary of the properties

BanIds == {i \in NamedIds : Catalog[i].verb = "ban"}

\* a ban is global when its target.id is blank (on_ban's is_global_ban) and
\* its target.objectType names neither a room nor a channel
GlobalIds ==
    {i \in BanIds : Catalog[i].target = NoVal
                    /\ Catalog[i].objectType \notin {"room", "channel"}}

\* the victim's sid is registered with the transport of node n
Holder(n) == Sid \in sio[n]

\* id is in neither dedup window of node n
Fresh(n, id) ==
    /\ id \notin recently_delegated_events_set[n]
    /\ id \notin recently_handled_events_set[n]

BannerKnown == actor = "0" \/ actor \in knownUsers

HasCall(fx, call) == \E i \in 1..Len(fx) : fx[i] = call

\* the place of the first call of fx to one of the ports ops, 0 if none
FirstCall(fx, ops) ==
    LET at == {i \in 1..Len(fx) : fx[i][1] \in ops}
    IN  IF at = {} THEN 0 ELSE CHOOSE i \in at : \A j \in at : i <= j

BanPorts == {"db.ban_user_global", "db.ban_user_channel", "db.ban_user_room"}

BanBroadcasts == {"gn_user_banned", "gn_user_kicked", "gn_banned"}

Interactive == BanBroadcasts \cup {"socketio.leave_room", "db.leave_room"}

\* the persistence call of the scope that target.objectType names
ScopeCall(i) ==
    CASE Catalog[i].objectType = "room" ->
             <<"db.ban_user_room", Catalog[i].target, "-">>
      [] Catalog[i].objectType = "channel" ->
             <<"db.ban_user_channel", Catalog[i].target, "-">>
      [] OTHER -> <<"db.ban_user_global", "", "-">>

\* the ban persistence calls the nodes S have made for id i
RECURSIVE PersistedBy(_, _)
PersistedBy(S, i) ==
    IF S = {} THEN 0
    ELSE LET n == CHOOSE m \in S : TRUE
         IN  calls[n][i].persisted + PersistedBy(S \ {n}, i)

\* the run of node n changed nothing but the node's queue and its record
RunLeftNoTrace(n) ==
    /\ last'[n].fx = <<>>
    /\ ~last'[n].ran
    /\ inbox' = [inbox EXCEPT ![n] = Tail(@)]
    /\ UNCHANGED << sio, dbRooms, bans, online, undeleted,
                    recently_delegated_events, recently_delegated_events_set,
                    recently_handled_events, recently_handled_events_set >>

----------------------------------------------------------------------------
\* C1: after any sequence of deliveries to a dispatcher, the
\* recently_delegated window and the recently_handled window (queue and set)
\* each hold at most 100 ids.
C1_WindowsHoldAtMost100 ==
    \A n \in Nodes :
        /\ Len(recently_delegated_events[n]) <= 100
        /\ Len(recently_handled_events[n]) <= 100
        /\ Cardinality(recently_delegated_events_set[n]) <= 100
        /\ Cardinality(recently_handled_events_set[n]) <= 100

\* both windows are full and the delegated room ban has been evicted from both
C1_Witness ==
    /\ Len(recently_delegated_events["A"]) = 100
    /\ Len(recently_handled_events["A"]) = 100
    /\ calls["A"][1].republished >= 1
    /\ 1 \notin recently_delegated_events_set["A"]
    /\ 1 \notin recently_handled_events_set["A"]

\* C2: a delivery of the envelope that the node's previous delivery brought
\* (the same activity.id, N times in a row) makes no persistence call, no
\* broadcast and no bus publish and changes no state: the effect is that of
\* the first delivery.
C2_RepeatedDeliveryAddsNothing ==
    [][\A n \in Nodes :
          (Receive(n) /\ last[n].id = Head(inbox[n])) => RunLeftNoTrace(n)]_vars

\* a ban that kicked the victim has been delivered 101 times to the node
C2_Witness ==
    \E i \in BanIds :
        /\ calls["A"][i].received = 101
        /\ calls["A"][i].handled = 1
        /\ calls["A"][i].persisted = 1
        /\ calls["A"][i].notified = 1

\* C3: a delivery of an id that is in the node's recently_delegated window
\* (the node delegated that ban) is dropped: no persistence call, no bus
\* publish, no broadcast, and both windows are left as they were.
C3_DelegatedIdIsDropped ==
    [][\A n \in Nodes :
          (Receive(n) /\ Head(inbox[n]) \in recently_delegated_events_set[n])
              => RunLeftNoTrace(n)]_vars

\* the delegated room ban came back after recently_handled had lost it, and
\* was dropped on the strength of recently_delegated alone
C3_Witness ==
    /\ last["A"].id = 1
    /\ ~last["A"].ran
    /\ calls["A"][1].republished = 1
    /\ calls["A"][1].received = 3
    /\ 1 \in recently_delegated_events_set["A"]
    /\ 1 \notin recently_handled_events_set["A"]

\* C4 (as claimed): for one ban envelope the ban persistence call is made
\* exactly once in total across the nodes of the cluster.
C4_PersistedOnceInTotal ==
    \A i \in BanIds :
        (\E n \in Nodes : calls[n][i].handled > 0)
            => PersistedBy(Nodes, i) = 1

\* C4 (amended): every node that handles a ban envelope makes the ban
\* persistence call for it exactly once, and a node handles it at most once
\* while the id is in its windows: the call is made once per handling node.
C4_PersistedOncePerHandlingNode ==
    \A i \in BanIds : \A n \in Nodes :
        /\ calls[n][i].handled <= 1
        /\ calls[n][i].persisted = calls[n][i].handled

\* both nodes have handled the same ban and each has persisted it
C4_Witness ==
    \E i \in BanIds :
        /\ calls["A"][i].persisted = 1
        /\ calls["B"][i].persisted = 1
        /\ calls["A"][i].received + calls["B"][i].received >= 4

\* the victim is inside what the ban of id i targets, on node o
InScope(i, o) ==
    CASE Catalog[i].objectType = "room" -> Catalog[i].target \in sio[o]
      [] Catalog[i].objectType = "channel" ->
             \E k \in 1..Len(rooms_for_channel(Catalog[i].target)) :
                 rooms_for_channel(Catalog[i].target)[k] \in sio[o]
      [] OTHER -> Catalog[i].target = NoVal

\* C5 (as claimed): when exactly one node holds the victim's sid, the
\* interactive effect of a ban envelope (here: of a ban whose banner is known
\* and whose target the victim is in) is performed on that node when it
\* handles the envelope, and on no other node.
C5_InteractiveOnOwningNode ==
    [][\A n \in Nodes :
          (Receive(n) /\ Head(inbox[n]) \in BanIds /\ Fresh(n, Head(inbox[n])))
              => IF Holder(n)
                 THEN (BannerKnown /\ InScope(Head(inbox[n]), n))
                          => HasCall(last'[n].fx, <<"gn_banned", WS, Sid>>)
                 ELSE CountOps(last'[n].fx, Interactive) = 0]_vars

\* C6: a node on which the victim is not present, and that handles a ban
\* envelope, makes the persistence call of the envelope's scope, and the ban
\* is in the persistence store.
C6_AbsentVictimIsStillBanned ==
    \A n \in Nodes :
        (last[n].id \in BanIds /\ last[n].ran /\ ~Holder(n))
            => /\ HasCall(last[n].fx, ScopeCall(last[n].id))
               /\ <<get_ban_target_type(EnvOf(last[n].id)),
                    ScopeCall(last[n].id)[2]>> \in bans

\* no node holds the victim's sid and a node has persisted a channel ban
C6_Witness ==
    /\ \A n \in Nodes : ~Holder(n)
    /\ \E n \in Nodes :
           /\ last[n].id \in BanIds
           /\ last[n].ran
           /\ HasCall(last[n].fx, <<"db.ban_user_channel", "C1", "-">>)

\* C7: in a run that handles a ban and emits a broadcast (gn_user_banned,
\* gn_user_kicked or gn_banned), the ban persistence call comes before the
\* first broadcast.
C7_PersistBeforeBroadcast ==
    \A n \in Nodes :
        (last[n].id \in BanIds /\ FirstCall(last[n].fx, BanBroadcasts) > 0)
            => /\ FirstCall(last[n].fx, BanPorts) > 0
               /\ FirstCall(last[n].fx, BanPorts)
                      < FirstCall(last[n].fx, BanBroadcasts)

\* a node has banned the victim from a room and told the victim
C7_Witness ==
    \E n \in Nodes :
        /\ last[n].id \in BanIds
        /\ HasCall(last[n].fx, <<"gn_user_banned", WS, "R1">>)
        /\ HasCall(last[n].fx, <<"gn_banned", WS, Sid>>)

\* C8 (as claimed): in a run that republishes a ban envelope on the internal
\* bus, the ban persistence call comes before the republish.
C8_PersistBeforeRepublish ==
    \A n \in Nodes :
        (last[n].id \in BanIds /\ FirstCall(last[n].fx, {"publish"}) > 0)
            => /\ FirstCall(last[n].fx, BanPorts) > 0
               /\ FirstCall(last[n].fx, BanPorts)
                      < FirstCall(last[n].fx, {"publish"})

FailedAt(run, ops) ==
    run.failed # <<>> /\ run.failed[1] \in ops

\* the room a failed call was for
FailedRoom(run) ==
    IF run.failed[2] \in RoomSet THEN run.failed[2] ELSE run.failed[3]

\* C11 (as claimed): if the ban persistence call fails while a ban envelope
\* is handled, no gn_user_banned, gn_user_kicked or gn_banned broadcast is
\* emitted and no kick is performed for it, whatever the error raised.
C11_PersistenceFailureAborts ==
    \A n \in Nodes :
        (last[n].id \in BanIds /\ FailedAt(last[n], BanPorts))
            => CountOps(last[n].fx, Interactive) = 0

\* C12 (as claimed): after the ban persistence call of an envelope has
\* failed on a node, a redelivery of the envelope to that node is processed
\* again and makes the persistence call.
C12_RedeliveryRetriesPersistence ==
    [][\A n \in Nodes :
          (Receive(n) /\ Head(inbox[n]) = last[n].id
                      /\ FailedAt(last[n], BanPorts))
              => /\ last'[n].ran
                 /\ CountOps(last'[n].fx, BanPorts) > 0]_vars

\* C13: a run of handle_server_activity that gets past the dedup tests
\* propagates no exception, whatever port call raised in it, and leaves the
\* envelope's id in recently_handled.
C13_ErrorsAreAbsorbed ==
    [][\A n \in Nodes :
          (Receive(n) /\ Fresh(n, Head(inbox[n])))
              => /\ last'[n].raised = NoVal
                 /\ last'[n].ran
                 /\ Head(inbox[n]) \in recently_handled_events_set'[n]]_vars

\* the republish of a ban raised an exception that no inner handler catches,
\* and the id is in recently_handled all the same
C13_Witness ==
    /\ last["A"].id \in BanIds
    /\ FailedAt(last["A"], {"publish"})
    /\ last["A"].failed[1] = "publish"
    /\ fault = NoFault
    /\ last["A"].raised = NoVal
    /\ last["A"].id \in recently_handled_events_set["A"]

\* C14 (as claimed): when the republish on the internal bus or the publish
\* of the normalized ban event on the external bus fails while a ban is
\* handled, the ban is persisted all the same.
C14_PublishFailureStillPersists ==
    \A n \in Nodes :
        (/\ last[n].id \in BanIds
         /\ \/ FailedAt(last[n], {"publish"})
            \/ last[n].failed = <<"publish_external", "ban", "-">>)
            => /\ HasCall(last[n].fx, ScopeCall(last[n].id))
               /\ <<get_ban_target_type(EnvOf(last[n].id)),
                    ScopeCall(last[n].id)[2]>> \in bans

\* C15 (as claimed): when the owning node handles a global or channel ban
\* (of a known banner) and the broadcast or the kick for one room fails,
\* every other room of the ban still gets its gn_user_banned broadcast, the
\* victim is removed from it, its messages there are purged, and the victim
\* is sent gn_banned.
C15_OneRoomFailureSparesTheOthers ==
    [][\A n \in Nodes :
          (/\ Receive(n)
           /\ Head(inbox[n]) \in BanIds
           /\ Catalog[Head(inbox[n])].objectType # "room"
           /\ Fresh(n, Head(inbox[n])) /\ Holder(n) /\ BannerKnown
           /\ user_is_on_this_node(n, EnvOf(Head(inbox[n])))
           /\ FailedAt(last'[n], {"gn_user_banned", "gn_user_kicked",
                                  "socketio.leave_room", "db.leave_room"}))
              => /\ \A r \in dbRooms \ {FailedRoom(last'[n])} :
                        /\ HasCall(last'[n].fx, <<"gn_user_banned", WS, r>>)
                        /\ r \notin sio'[n]
                        /\ r \notin dbRooms'
                        /\ \A m \in undeleted' : MsgRoom[m] # r
                 /\ HasCall(last'[n].fx, <<"gn_banned", WS, Sid>>)]_vars

\* a handler has returned
Replied == reply.handler # NoVal

\* the user holds one of the roles that allow a kick in the room and channel
\* of the request
MayKick(env, a, user_id) ==
    \/ is_owner(env, a.target_id, user_id)
    \/ is_owner_channel(env, a.object_url, user_id)
    \/ is_moderator(env, a.target_id, user_id)
    \/ is_admin(env, user_id)

\* C16 (as claimed): when a validator handler returns failure the session
\* is exactly as it was before the call; in particular after an on_login
\* that fails for want of a token or because the login was rejected.
C16_FailureLeavesSessionAlone ==
    (Replied /\ ~reply.ok) => session = reply.before

\* C17 (as claimed): a validator handler that accepts the activity returns
\* the triple (true, 0, "").
C17_SuccessIsTrueZeroEmpty ==
    (Replied /\ reply.ok) => (reply.code = <<0>> /\ reply.reason = "")

\* C17 (amended): a validator handler that accepts the activity returns the
\* triple (True, None, None): no code and no reason, rather than 0 and "".
C17_SuccessIsTrueNoneNone ==
    (Replied /\ reply.ok) => (reply.code = <<>> /\ reply.reason = NoVal)

\* on_kick has accepted a kick and returned (True, None, None)
C17_Witness ==
    /\ reply.handler = "on_kick"
    /\ reply.ok
    /\ reply.code = <<>>
    /\ reply.reason = NoVal

\* C18 (as claimed): on_kick succeeds only if the acting user actor.id is
\* owner of the target room, owner of the channel, moderator of the target
\* room or global admin; a kick by an actor with none of these roles is
\* rejected with 400 whoever the kicked user is.
C18_KickerMustHoldARole ==
    (reply.handler = "on_kick" /\ ~MayKick(reply.env, reply.a, reply.a.actor))
        => (~reply.ok /\ reply.code = <<400>>)

\* C19 (as claimed): a global ban (blank target.id) with a non-blank
\* object.id is accepted when the actor is a global admin and rejected when
\* the actor is not, without any room having to exist; a scoped ban is
\* accepted only from an owner of the target room.
C19_GlobalBanNeedsNoRoom ==
    (reply.handler = "on_ban" /\ ~BlankStripped(reply.a.object_id))
        => /\ Blank(reply.a.target_id)
                  => (reply.ok <=> is_admin(reply.env, reply.a.actor))
           /\ (~Blank(reply.a.target_id) /\ reply.ok)
                  => is_owner(reply.env, reply.a.target_id, reply.a.actor)

\* C20 (as claimed): on_message rejects with 400 every message whose
\* target.id does not name an existing room, whatever target.objectType is.
C20_MessageNeedsExistingRoom ==
    (reply.handler = "on_message" /\ reply.a.target_id \notin RoomSet)
        => (~reply.ok /\ reply.code = <<400>>)

\* C21: on_join rejects a banned user with 400; the reason reports the
\* seconds the ban still lasts; the join succeeds exactly when the stored
\* join ACLs hold and no ban applies; when both the ACLs and the ban would
\* reject, the error of the ACLs is the one returned.
C21_JoinChecksAclThenBan ==
    (Replied /\ reply.handler = "on_join") =>
        /\ reply.ok <=> (reply.env.acl_ok /\ ~reply.env.banned)
        /\ ~reply.ok => reply.code = <<400>>
        /\ ~reply.env.acl_ok => reply.reason = reply.env.acl_error
        /\ (reply.env.acl_ok /\ reply.env.banned) =>
               reply.reason = banned_for("joining room", reply.env.duration)

\* a banned user whose ACLs do not hold either has been turned away
C21_Witness ==
    /\ Replied
    /\ reply.handler = "on_join"
    /\ reply.env.banned
    /\ ~reply.env.acl_ok
    /\ ~reply.ok

\* C22: on_set_acl succeeds only if the actor is owner of the target room
\* and every attachment names a known ACL attribute with a content that the
\* attribute accepts; otherwise it returns (false, 400, reason), and no ACL
\* of the request is stored, not even those before the invalid attachment.
C22_SetAclIsAllOrNothing ==
    [][(reply.handler = "on_set_acl") =>
          LET att == reply.a.object_attachments
              valid == \A i \in 1..Len(att) :
                           /\ att[i][1] \in ACL_MATCHERS
                           /\ is_acl_valid(att[i][1], att[i][2])
          IN  /\ reply.ok =>
                     (is_owner(reply.env, reply.a.target_id, reply.a.actor)
                      /\ valid)
              /\ ~reply.ok => /\ reply.code = <<400>>
                              /\ stored_acls' = stored_acls]_vars

\* an owner's request whose second attachment is invalid was turned away
\* while the ACL of its first attachment is not stored
C22_Witness ==
    /\ reply.handler = "on_set_acl"
    /\ is_owner(reply.env, reply.a.target_id, reply.a.actor)
    /\ first_invalid_acl(reply.a.object_attachments) = 2
    /\ ~reply.ok
    /\ reply.a.object_attachments[1] \notin stored_acls

\* the handlers of the verbs other than list, login, leave, get_acl,
\* list_channels and users_in_room
NeedsToken ==
    {"on_message", "on_join", "on_ban", "on_kick", "on_set_acl", "on_create",
     "on_delete", "on_history", "on_status"}

\* C23: for every verb other than list, login, leave, get_acl, list_channels
\* and users_in_room the handler fails when the session of the user carries
\* no validated token.
C23_NoTokenNoService ==
    (reply.handler \in NeedsToken /\ reply.before["token"] = NoVal)
        => ~reply.ok

\* k=v holds iff the session's value of k equals v, or lies in lo:hi with
\* both ends included; k=!v holds iff k=v does not
Holds(t, sess) ==
    t.negated #
        IF t.range
        THEN /\ t.lo = <<>> \/ t.lo[1] <= sess[t.key].n
             /\ t.hi = <<>> \/ sess[t.key].n <= t.hi[1]
        ELSE sess[t.key].c = t.word

C25_NewAclIsCheckedAgainstTheGrammar ==
    (acl.step # NoVal /\ acl.step # "new") =>
        /\ acl.damage = "nothing" => acl.cause = "ok"
        /\ acl.damage # "nothing" => acl.cause # "ok"

\* the expression of test_new_pattern without its first ')' was turned away
C25_Witness ==
    /\ acl.step = "validated"
    /\ acl.pattern = Without(NewPattern, 13)
    /\ acl.damage = "parenthesis"
    /\ acl.cause # "ok"

\* a message to a room that exists and that the sender has joined
ToJoinedRoom ==
    /\ reply.handler = "on_message"
    /\ reply.a.target_id \in RoomSet
    /\ reply.env.in_room

\* C26: a message sent by a user to an existing room that the user has
\* joined is accepted: validation reports success and the operation returns
\* the status 200.
C26_MessageToJoinedRoomIsAccepted ==
    ToJoinedRoom => (reply.ok /\ reply.status = <<200>>)

\* C26 as amended: ... provided that, when target.objectType is 'group',
\* object.url names the channel of the room and actor.url is absent or
\* names the target room or another room of that channel.
C26_MessageToJoinedRoomOfKnownChannel ==
    (/\ ToJoinedRoom
     /\ reply.a.target_type = "group" =>
            /\ room_exists(reply.a.object_url, reply.a.target_id)
            /\ \/ reply.a.actor_url \in {NoVal, reply.a.target_id}
               \/ room_exists(reply.a.object_url, reply.a.actor_url))
        => (reply.ok /\ reply.status = <<200>>)

\* a message without objectType and without channel, as the one of
\* test_send_message, was accepted
C26_Witness ==
    /\ ToJoinedRoom
    /\ reply.a.target_type = NoVal
    /\ reply.a.object_url = NoVal
    /\ reply.ok
    /\ reply.status = <<200>>

\* C27: for an envelope whose verb is not ban, kick or remove and whose id
\* is in neither dedup window, the dispatcher records the id in
\* recently_handled, publishes the envelope exactly once to the external bus,
\* and makes no persistence call, no broadcast and no internal-bus publish.
C27_OtherVerbsGoToTheExternalBusOnly ==
    [][\A n \in Nodes :
          (/\ Receive(n)
           /\ EnvOf(Head(inbox[n])).verb \notin {"ban", "kick", "remove"}
           /\ Fresh(n, Head(inbox[n])))
              => /\ Head(inbox[n]) \in recently_handled_events_set'[n]
                 /\ \E k \in 1..Len(recently_handled_events'[n]) :
                        recently_handled_events'[n][k] = Head(inbox[n])
                 /\ last'[n].fx = << <<"publish_external", "activity", "-">> >>
                 /\ inbox' = [inbox EXCEPT ![n] = Tail(@)]
                 /\ UNCHANGED << sio, dbRooms, bans, online, undeleted,
                                 recently_delegated_events,
                                 recently_delegated_events_set >>]_vars

\* the message envelope has been handled by node A
C27_Witness ==
    /\ last["A"].id = 8
    /\ last["A"].ran
    /\ last["A"].fx = << <<"publish_external", "activity", "-">> >>
    /\ 8 \in recently_handled_events_set["A"]

\* C28: in the handling of a ban envelope the ban is persisted through the
\* scope-specific persistence call before the normalized ban event is
\* published to the external bus, so no external ban event exists for a ban
\* whose persistence failed.
C28_PersistBeforeExternalBanEvent ==
    \A n \in Nodes :
        (last[n].id \in BanIds /\ last[n].ran) =>
            \A i \in 1..Len(last[n].fx) :
                last[n].fx[i] = <<"publish_external", "ban", "-">> =>
                    \E j \in 1..(i - 1) :
                        last[n].fx[j] = ScopeCall(last[n].id)

ChannelIds == {i \in BanIds : Catalog[i].objectType = "channel"}

\* C29: for a channel-scoped ban handled by the node on which the victim is
\* connected, every room of the channel receives a gn_user_banned
\* broadcast, the victim is kicked from it and the victim's undeleted
\* messages in it are purged.
C29_ChannelBanCoversEveryRoom ==
    [][\A n \in Nodes :
          (/\ Receive(n)
           /\ Head(inbox[n]) \in ChannelIds
           /\ Fresh(n, Head(inbox[n]))
           /\ Holder(n)
           /\ BannerKnown)
              => LET rooms == rooms_for_channel(Catalog[Head(inbox[n])].target)
                 IN  \A k \in 1..Len(rooms) :
                         /\ HasCall(last'[n].fx,
                                    <<"gn_user_banned", WS, rooms[k]>>)
                         /\ HasCall(last'[n].fx,
                                    <<"gn_user_kicked", WS, rooms[k]>>)
                         /\ rooms[k] \notin sio'[n]
                         /\ \A m \in undeleted' : MsgRoom[m] # rooms[k]]_vars

\* C30: user_is_on_this_node is true exactly when the victim's current sid
\* is registered with this node's broadcast transport for the envelope's
\* namespace, whether or not the victim is inside the room or channel that
\* the envelope targets (stated of the ban envelope a node is about to
\* handle).
C30_OnThisNodeIffSidIsRegistered ==
    \A n \in cluster :
        (inbox[n] # <<>> /\ Head(inbox[n]) \in BanIds) =>
            LET e == EnvOf(Head(inbox[n]))
                namespace == IF e.url = NoVal THEN WS ELSE e.url
            IN  user_is_on_this_node(n, e)
                    <=> (HasNamespace(n, namespace) /\ Sid \in sio[n])

\* the ports of the per-room work of a ban: the room broadcasts, the kick
\* and the purge of the victim's messages
RoomWork ==
    {"gn_user_banned", "gn_user_kicked", "socketio.leave_room",
     "db.leave_room", "storage.delete_message"}

\* the place of the last call of fx to one of the ports ops, 0 if none
LastCall(fx, ops) ==
    LET at == {i \in 1..Len(fx) : fx[i][1] \in ops}
    IN  IF at = {} THEN 0 ELSE CHOOSE i \in at : \A j \in at : j <= i

\* C31 (as claimed): when the node that holds the victim's sid handles a ban
\* envelope (of a known banner, the victim being inside the ban's target),
\* whatever the scope, gn_banned is emitted to the victim's sid exactly once
\* in the run, and after every gn_user_banned broadcast, kick and message
\* purge of the run.
C31_VictimIsToldOnceAfterTheRoomWork ==
    [][\A n \in Nodes :
          (Receive(n) /\ Head(inbox[n]) \in BanIds /\ Fresh(n, Head(inbox[n]))
                      /\ Holder(n) /\ BannerKnown /\ InScope(Head(inbox[n]), n))
              => /\ CountOps(last'[n].fx, {"gn_banned"}) = 1
                 /\ HasCall(last'[n].fx, <<"gn_banned", WS, Sid>>)
                 /\ LastCall(last'[n].fx, RoomWork)
                        < FirstCall(last'[n].fx, {"gn_banned"})]_vars

\* the call was made in the run: it returned, or it is the call that raised
Tried(run, call) ==
    HasCall(run.fx, call) \/ run.failed = call

\* the places in fx where kick has told room r (gn_user_kicked) and has then
\* published the kick event on the external bus
Announced(fx, r) ==
    {i \in 2..Len(fx) : /\ fx[i] = <<"publish_external", "kick", "-">>
                        /\ fx[i - 1][1] = "gn_user_kicked"
                        /\ fx[i - 1][3] = r}

\* the places in fx of the leave_room calls for room r
LeaveCalls(fx, r) ==
    {i \in 1..Len(fx) : \/ fx[i] = <<"socketio.leave_room", WS, r>>
                        \/ fx[i] = <<"db.leave_room", r, "-">>}

\* C32: a leave_room call for a room (transport or persistence) is made only
\* after kick has emitted gn_user_kicked to the room and published the
\* external kick event; once kick has done both, it calls the transport
\* leave_room and the persistence leave_room if and only if the victim's
\* sid is in the room on this node, and in both cases it calls
\* delete_message for every undeleted message of the victim in the room: a
\* delete_message that raises does not stop the others, which are deleted.
C32_KickLeavesIffInRoomAndPurges ==
    [][\A n \in Nodes : \A r \in RoomSet :
          Receive(n) =>
              /\ \A j \in LeaveCalls(last'[n].fx, r) :
                     \E i \in Announced(last'[n].fx, r) : i < j
              /\ Announced(last'[n].fx, r) # {} =>
                     /\ (r \in sio[n]) <=>
                            Tried(last'[n], <<"socketio.leave_room", WS, r>>)
                     /\ (r \in sio[n]) <=>
                            Tried(last'[n], <<"db.leave_room", r, "-">>)
                     /\ \A m \in undeleted :
                            MsgRoom[m] = r =>
                                /\ Tried(last'[n],
                                         <<"storage.delete_message", m, "-">>)
                                /\ m \in undeleted' =>
                                       last'[n].failed =
                                           <<"storage.delete_message", m, "-">>
                ]_vars

\* a kick removed the victim from R1, the deletion of message m1 raised and
\* message m2 was deleted all the same
C32_Witness ==
    /\ last["A"].id \in {5}
    /\ HasCall(last["A"].fx, <<"socketio.leave_room", WS, "R1">>)
    /\ HasCall(last["A"].fx, <<"db.leave_room", "R1", "-">>)
    /\ last["A"].failed = <<"storage.delete_message", "m1", "-">>
    /\ HasCall(last["A"].fx, <<"storage.delete_message", "m2", "-">>)
    /\ "m1" \in undeleted
    /\ "m2" \notin undeleted

\* the kick and remove envelopes that carry no target.url
NoUrlIds ==
    {i \in NamedIds : Catalog[i].verb \in {"kick", "remove"}
                      /\ Catalog[i].url = NoVal}

\* C33 (as claimed): when a node handles a kick or remove envelope without
\* target.url (the kicker being known and the victim connected), its
\* broadcast is emitted in namespace '/ws': gn_room_removed for a remove;
\* for a kick gn_user_kicked to the room, and the victim, when its sid is in
\* the room in '/ws' on this node, is made to leave the room.
C33_MissingUrlMeansWs ==
    [][\A n \in Nodes :
          (Receive(n) /\ Head(inbox[n]) \in NoUrlIds /\ Fresh(n, Head(inbox[n]))
                      /\ BannerKnown /\ get_sid_for_user_id = Sid
                      /\ nodeType[n] = "app")
              => LET e == EnvOf(Head(inbox[n]))
                 IN  IF e.verb = "remove"
                     THEN HasCall(last'[n].fx, <<"gn_room_removed", WS, "-">>)
                     ELSE /\ HasCall(last'[n].fx,
                                     <<"gn_user_kicked", WS, e.target>>)
                          /\ e.target \in sio[n] =>
                                 /\ HasCall(last'[n].fx,
                                        <<"socketio.leave_room", WS, e.target>>)
                                 /\ e.target \notin sio'[n]]_vars

\* C34: when a run inserts an id into a window that holds 100 ids, the
\* oldest id of the window, and no other, leaves both the queue and the set
\* and the new id joins both; and an envelope the node has handled before,
\* whose id is no longer in either window, is handled again when it is
\* delivered again.
C34_FullWindowEvictsTheOldest ==
    [][\A n \in Nodes :
          (Receive(n) /\ Fresh(n, Head(inbox[n]))) =>
              LET id == Head(inbox[n])
                  hq == recently_handled_events[n]
                  dq == recently_delegated_events[n]
              IN  /\ Len(hq) = 100 =>
                         /\ recently_handled_events'[n] = Append(Tail(hq), id)
                         /\ recently_handled_events_set'[n] =
                                (recently_handled_events_set[n] \ {Head(hq)})
                                    \cup {id}
                  /\ (Len(dq) = 100 /\ HasCall(last'[n].fx, <<"publish", "-", "-">>))
                         =>
                         /\ recently_delegated_events'[n] = Append(Tail(dq), id)
                         /\ recently_delegated_events_set'[n] =
                                (recently_delegated_events_set[n] \ {Head(dq)})
                                    \cup {id}
                  /\ last'[n].ran
                  /\ id \in NamedIds =>
                         calls'[n][id].handled = calls[n][id].handled + 1]_vars

\* the room ban was handled and delegated, was evicted from both full
\* windows, and was handled and delegated a second time
C34_Witness ==
    /\ calls["A"][1].handled = 2
    /\ calls["A"][1].republished = 2
    /\ Len(recently_handled_events["A"]) = 100
    /\ Len(recently_delegated_events["A"]) = 100
    /\ recently_handled_events["A"][100] = 1
    /\ recently_delegated_events["A"][100] = 1

OfflineCall == <<"db.set_user_offline", "-", "-">>

DisconnectCall == <<"publish_external", "disconnect", "-">>

\* C35: a run calls set_user_offline or publishes a disconnect event on the
\* external bus only on a node that holds the victim's sid, and then after
\* the per-room work of the run (broadcasts, kicks, purges), the offline
\* mark first; the node that holds the victim's sid and handles a global
\* ban of a known banner makes both calls; while no node holds the victim's
\* sid, no run makes either call and the online flag is left as it is.
C35_OfflineOnlyOnTheOwningNode ==
    [][\A n \in Nodes :
          Receive(n) =>
              LET fx == last'[n].fx
                  id == Head(inbox[n])
              IN  /\ (HasCall(fx, OfflineCall) \/ HasCall(fx, DisconnectCall))
                         => /\ Holder(n)
                            /\ LastCall(fx, RoomWork)
                                   < FirstCall(fx, {"db.set_user_offline"})
                            /\ fx[FirstCall(fx, {"db.set_user_offline"}) + 1]
                                   = DisconnectCall
                  /\ (id \in GlobalIds /\ Fresh(n, id) /\ Holder(n) /\ BannerKnown)
                         => /\ HasCall(fx, OfflineCall)
                            /\ HasCall(fx, DisconnectCall)
                            /\ ~online'
                  /\ (\A m \in Nodes : ~Holder(m))
                         => /\ ~HasCall(fx, OfflineCall)
                            /\ ~HasCall(fx, DisconnectCall)
                            /\ online' = online]_vars

\* a global ban went through both nodes: the node without the victim
\* delegated it, the node that holds the victim kicked it from R1, marked it
\* offline and published the disconnect event
C35_Witness ==
    \E n \in Nodes : \E m \in Nodes :
        /\ Holder(n)
        /\ last[n].id \in GlobalIds
        /\ HasCall(last[n].fx, <<"gn_user_kicked", WS, "R1">>)
        /\ HasCall(last[n].fx, OfflineCall)
        /\ HasCall(last[n].fx, DisconnectCall)
        /\ ~online
        /\ ~Holder(m)
        /\ last[m].id \in GlobalIds
        /\ HasCall(last[m].fx, <<"publish", "-", "-">>)
        /\ ~HasCall(last[m].fx, OfflineCall)

\* the set s holds exactly the ids of the queue q, and q holds no id twice
\* (it has as many places as it has distinct ids)
Consistent(q, s) ==
    /\ s = {q[i] : i \in 1..Len(q)}
    /\ Cardinality({q[i] : i \in 1..Len(q)}) = Len(q)

\* C36: after any sequence of deliveries, on every node, the set of the
\* recently_delegated window holds exactly the ids of its queue, the set of
\* the recently_handled window holds exactly the ids of its queue, and
\* neither queue holds an id twice.
C36_WindowsAreConsistent ==
    \A n \in Nodes :
        /\ Consistent(recently_delegated_events[n],
                      recently_delegated_events_set[n])
        /\ Consistent(recently_handled_events[n],
                      recently_handled_events_set[n])

\* both windows are full and have evicted ids; the room ban was evicted from
\* both, was handled and delegated again, and a later id has followed it
C36_Witness ==
    /\ Len(recently_handled_events["A"]) = 100
    /\ Len(recently_delegated_events["A"]) = 100
    /\ calls["A"][1].handled = 2
    /\ recently_handled_events["A"][99] = 1
    /\ 1 \in recently_delegated_events_set["A"]
    /\ last["A"].id # 1

\* the ban envelope of id i as the activity on_ban is asked about, sent by
\* the envelope's actor for the victim, the channel of the rooms given
BanActivity(i) ==
    [NoActivity EXCEPT !.verb = "ban", !.actor = actor, !.object_id = Victim,
                       !.object_url = "C1", !.target_id = Catalog[i].target,
                       !.target_type = Catalog[i].objectType]

\* the actor owns the target room of the ban and has no other role
OwnerOnly(i) ==
    [NoAnswers EXCEPT !.roles = {<<"owner", Catalog[i].target, actor>>}]

\* on_ban accepts the ban of id i as a scoped ban: target.id is not blank
\* and the actor, who is no global admin, owns the room
AcceptedAsScoped(i) ==
    /\ i \in BanIds
    /\ actor # "0"
    /\ ~Blank(Catalog[i].target)
    /\ ~is_admin(OwnerOnly(i), actor)
    /\ on_ban(BanActivity(i), OwnerOnly(i), session).ok

\* C37 (as claimed): a run that handles a ban envelope on_ban accepts as a
\* scoped ban makes no global persistence call and no call of the global
\* ban (set_user_offline, disconnect event), and no global ban of the victim
\* is in the persistence store, whatever the envelope's target.objectType.
C37_ScopedBanIsNeverGlobal ==
    \A n \in Nodes :
        AcceptedAsScoped(last[n].id)
            => /\ ~HasCall(last[n].fx, <<"db.ban_user_global", "", "-">>)
               /\ ~HasCall(last[n].fx, OfflineCall)
               /\ ~HasCall(last[n].fx, DisconnectCall)
               /\ <<"global", "">> \notin bans

\* the republishes of the envelope of id i the nodes S have made, by the
\* counters c
RECURSIVE RepublishedBy(_, _, _)
RepublishedBy(c, S, i) ==
    IF S = {} THEN 0
    ELSE LET n == CHOOSE m \in S : TRUE
         IN  c[n][i].republished + RepublishedBy(c, S \ {n}, i)

\* C38: while no node holds the victim's sid, a node that runs on a ban
\* envelope has afterwards republished it at most once, the nodes of the
\* cluster together at most as many times as there are nodes, and a run on
\* a ban whose id is in a window of the node publishes nothing: it only
\* takes the envelope off the node's queue.
C38_AtMostOneRepublishPerNode ==
    [][(\A m \in Nodes : ~Holder(m)) =>
          \A n \in Nodes :
              (Receive(n) /\ Head(inbox[n]) \in BanIds) =>
                  LET id == Head(inbox[n])
                  IN  /\ calls'[n][id].republished <= 1
                      /\ RepublishedBy(calls', Nodes, id) <= Cardinality(cluster)
                      /\ ~Fresh(n, id) =>
                             /\ ~HasCall(last'[n].fx, <<"publish", "-", "-">>)
                             /\ inbox' = [inbox EXCEPT ![n] = Tail(@)]]_vars

\* no node holds the victim; both nodes have republished the ban, every
\* copy has been delivered and dropped, and the bus is quiet
C38_Witness ==
    \E i \in BanIds :
        /\ \A m \in Nodes : ~Holder(m)
        /\ \A n \in Nodes : /\ calls[n][i].republished = 1
                            /\ calls[n][i].received >= 3
                            /\ inbox[n] = <<>>

\* C39: in a run that delegates a ban envelope, the envelope's id is in the
\* recently_handled set and in the recently_delegated set of the node at
\* the moment the envelope is put on the internal bus; and when the next
\* delivery to that node brings the envelope back, the run drops it: no port
\* call, no publish, no change of state.
C39_RecordedBeforeRepublish ==
    [][\A n \in Nodes :
          /\ (Receive(n) /\ Head(inbox[n]) \in BanIds
                         /\ HasCall(last'[n].fx, <<"publish", "-", "-">>))
                 => /\ Len(last'[n].sent) = 1
                    /\ Head(inbox[n]) \in last'[n].sent[1].handled
                    /\ Head(inbox[n]) \in last'[n].sent[1].delegated
          /\ (Receive(n) /\ Head(inbox[n]) = last[n].id
                         /\ last[n].id \in BanIds
                         /\ HasCall(last[n].fx, <<"publish", "-", "-">>))
                 => RunLeftNoTrace(n)]_vars

\* node B delegated the channel ban, its own copy was the next envelope it
\* was delivered, and it dropped the copy
C39_Witness ==
    /\ calls["B"][2].republished = 1
    /\ calls["B"][2].received = 2
    /\ calls["B"][2].handled = 1
    /\ last["B"].id = 2
    /\ last["B"].fx = <<>>
    /\ last["B"].sent = <<>>
    /\ 2 \in recently_delegated_events_set["B"]
    /\ 2 \in recently_handled_events_set["B"]

\* C40: when the node that holds the victim's sid handles a ban envelope
\* whose banner is not '0' and has no known user name, or for which
\* handle_ban finds no sid of the victim, and no port call raises, the ban
\* is persisted in the scope of the envelope, and the run emits no
\* gn_user_banned and no gn_user_kicked, makes no leave_room call, deletes
\* no message and emits no gn_banned.
C40_UnknownBannerOrNoSidPersistsOnly ==
    [][\A n \in Nodes :
          (Receive(n) /\ Head(inbox[n]) \in BanIds /\ Fresh(n, Head(inbox[n]))
                      /\ Holder(n)
                      /\ (~BannerKnown \/ get_sid_for_banned_id = NoVal)
                      /\ last'[n].failed = <<>>)
              => /\ HasCall(last'[n].fx, ScopeCall(Head(inbox[n])))
                 /\ <<get_ban_target_type(EnvOf(Head(inbox[n]))),
                      ScopeCall(Head(inbox[n]))[2]>> \in bans'
                 /\ CountOps(last'[n].fx, RoomWork \cup {"gn_banned"}) = 0
                 /\ undeleted' = undeleted
                 /\ sio' = sio
                 /\ dbRooms' = dbRooms]_vars

\* the node on which the victim is in R1 has handled a room ban for R1 whose
\* banner has no user name: the ban is stored, the victim is still in the
\* room and its messages are still there
C40_Witness ==
    /\ ~BannerKnown
    /\ "R1" \in sio["A"]
    /\ last["A"].id = 1
    /\ last["A"].fx = << <<"publish_external", "ban", "-">>,
                         <<"db.ban_user_room", "R1", "-">> >>
    /\ bans = {<<"room", "R1">>}
    /\ "R1" \in dbRooms
    /\ undeleted = MsgSet

============================================================================
